---- MODULE Spec2Model ----
(***************************************************************************)
(* Frame simulation engine of the co-op shooter (src/main.go).             *)
(*                                                                         *)
(* Units.  Lengths are integers in tenths of a world unit, times are       *)
(* integers in hundredths of a second, velocities are tenths of a world    *)
(* unit per second.  A displacement v*dt is therefore (v * dt) / 100.      *)
(* Angles are multiples of 30 degrees (0..11); cosine and sine are scaled  *)
(* by 1000.  Chances are percentages.  Audio, models, colours, camera and  *)
(* animation fields carry no simulation state and are left out.            *)
(***************************************************************************)
EXTENDS Integers, Sequences, FiniteSets, TLC

VARIABLES
    state,              \* Game.state
    players,            \* Game.players   (function 0..n-1 -> Player)
    enemies,            \* Game.enemies   (function 0..maxEnemies-1 -> Enemy)
    bullets,            \* Game.bullets
    particles,          \* Game.particles
    powerUps,           \* Game.powerUps
    obstacles,          \* Game.obstacles
    difficulty,         \* Game.settings.difficulty
    score, highScore, level,
    spawnTimer, spawnInterval,
    enemiesKilled, gameTime,
    bossActive, bossSpawned,
    upgradeChoice, coopMode,
    menuSelection, settingsSelection,
    currentStage,
    exited,             \* os.Exit(0) was called (Quit in the menu)
    ev,                 \* history: what the last Update call did
    bossLog,            \* history: levels at which SpawnBoss created a boss in this game
    sinceUse,           \* history: simulated time since each skill's last activation
    resetSince,         \* history: ResetGame has run since that activation
    nonBossKills,       \* history: KillEnemy calls on non-boss enemies in this game
    ticks,              \* history: simulated ticks so far (bounds the run)
    atPause             \* history: the game as it was before the Update call that paused it

vars == <<state, players, enemies, bullets, particles, powerUps, obstacles,
          difficulty, score, highScore, level, spawnTimer, spawnInterval,
          enemiesKilled, gameTime, bossActive, bossSpawned, upgradeChoice,
          coopMode, menuSelection, settingsSelection, currentStage, exited,
          ev, bossLog, sinceUse, resetSince, nonBossKills, ticks, atPause>>

---------------------------------------------------------------------------
\* Pool capacities (scaled down from the program's 80 / 20 / 200 / 5).  The enemy
\* pool holds one enemy more than the spawn cap of level 1 (10 + 2*1), the bullet
\* pool one bullet more than a Radial Shot fires.
maxEnemies == 13
maxBullets == 13
maxParticles == 2
maxPowerUps == 2
\* Ticks simulated in one run.
MaxTicks == 2
\* Direct calls of the Game's methods in one run.
MaxCalls == 2
\* Ticks of a run that follows bullets to the end of their flight, and the
\* number of its first ticks in which the fire and skill keys are used.  A
\* bullet shot from near the origin at 35 units/s along 30 degrees gains 3.03
\* units per 0.1 s tick on its faster axis and leaves |x| <= 40 on its 14th tick.
MaxFlight == 17
FlightShots == 2
\* Program constants.
maxObstacles == 30
stageInterval == 10

\* GameState (iota order of the source).
StateMenu == "Menu"
StateSettings == "Settings"
StatePlaying == "Playing"
StatePaused == "Paused"
StateUpgrade == "Upgrade"
StateGameOver == "GameOver"
GameStates == {StateMenu, StateSettings, StatePlaying, StatePaused, StateUpgrade, StateGameOver}

\* StageType.
StageBasic == 0
StageMaze == 1
StageHazard == 2
StageArena == 3

---------------------------------------------------------------------------
\* Arithmetic helpers.
Min(a, b) == IF a < b THEN a ELSE b
Max(a, b) == IF a > b THEN a ELSE b
Abs(a) == IF a < 0 THEN -a ELSE a

\* Division rounding toward zero (the discretisation of a float quotient).
TruncDiv(a, b) == IF a >= 0 THEN a \div b ELSE -((-a) \div b)

\* Displacement of velocity v (tenths per second) over dt (hundredths of a second).
Scale(v, dt) == TruncDiv(v * dt, 100)

RECURSIVE SqrtSearch(_, _, _)
SqrtSearch(n, lo, hi) ==
    IF lo >= hi THEN lo
    ELSE LET mid == (lo + hi + 1) \div 2
         IN IF mid * mid <= n THEN SqrtSearch(n, mid, hi) ELSE SqrtSearch(n, lo, mid - 1)

\* math.Sqrt, rounded to the nearest integer.
Sqrt(n) ==
    LET r == SqrtSearch(n, 0, 2048)
    IN IF n - r * r > r THEN r + 1 ELSE r

Vec(x, z) == [x |-> x, z |-> z]
ZeroVec == Vec(0, 0)

\* Squared planar distance; the vertical axis takes no part in any test.
Dist2(a, b) == (a.x - b.x) * (a.x - b.x) + (a.z - b.z) * (a.z - b.z)
\* Planar distance in tenths, rounded.
Dist(a, b) == Sqrt(Dist2(a, b))

\* math.Cos / math.Sin of a * 30 degrees, times 1000.
Cos1000(a) ==
    CASE a = 0 -> 1000 [] a = 1 -> 866 [] a = 2 -> 500 [] a = 3 -> 0
      [] a = 4 -> -500 [] a = 5 -> -866 [] a = 6 -> -1000 [] a = 7 -> -866
      [] a = 8 -> -500 [] a = 9 -> 0 [] a = 10 -> 500 [] a = 11 -> 866
Sin1000(a) == Cos1000((a + 9) % 12)

Angles == 0..11

\* The point at `distance` (tenths) from the origin in direction a.
Polar(a, distance) ==
    Vec(TruncDiv(Cos1000(a) * distance, 1000), TruncDiv(Sin1000(a) * distance, 1000))

\* math.Atan2(dz, dx) as the nearest of the twelve directions.
Atan2(dz, dx) ==
    CHOOSE a \in Angles :
        \A b \in Angles :
            dx * Cos1000(a) + dz * Sin1000(a) > dx * Cos1000(b) + dz * Sin1000(b)
            \/ (dx * Cos1000(a) + dz * Sin1000(a) = dx * Cos1000(b) + dz * Sin1000(b) /\ a <= b)

---------------------------------------------------------------------------
\* Zero values of the pool slots, as make([]T, n) leaves them.
ZeroEnemy ==
    [position |-> ZeroVec, velocity |-> ZeroVec, active |-> FALSE, health |-> 0,
     maxHealth |-> 0, size |-> 0, isBoss |-> FALSE]
ZeroBullet ==
    [position |-> ZeroVec, velocity |-> ZeroVec, active |-> FALSE, damage |-> 0, playerId |-> 0]
ZeroParticle == [lifetime |-> 0, active |-> FALSE]
ZeroPowerUp == [position |-> ZeroVec, active |-> FALSE, pType |-> 0]
ZeroObstacle == [position |-> ZeroVec, size |-> ZeroVec, active |-> FALSE, obsType |-> 0]

EnemySlots == 0..(maxEnemies - 1)
BulletSlots == 0..(maxBullets - 1)
ParticleSlots == 0..(maxParticles - 1)
PowerUpSlots == 0..(maxPowerUps - 1)
ObstacleSlots == 0..(maxObstacles - 1)

\* len(g.players)
NumPlayers(g) == Cardinality(DOMAIN g.players)

\* What the last Update call did (history only; nothing reads it back).
NoEvents(pre) ==
    [pre |-> pre, simulated |-> FALSE, kills |-> <<>>, lethal |-> FALSE,
     skillUsed |-> {}, resets |-> 0, stageRuns |-> 0, upgrades |-> <<>>,
     full |-> {}, candidates |-> <<>>, moved |-> {}, hits |-> {}, pickups |-> <<>>,
     skillCalls |-> <<>>, radial |-> <<>>, blasts |-> <<>>, spawnSteps |-> <<>>]

\* The Game struct as one value, threaded through the statements of a handler.
Game ==
    [state |-> state, players |-> players, enemies |-> enemies, bullets |-> bullets,
     particles |-> particles, powerUps |-> powerUps, obstacles |-> obstacles,
     difficulty |-> difficulty, score |-> score, highScore |-> highScore,
     level |-> level, spawnTimer |-> spawnTimer, spawnInterval |-> spawnInterval,
     enemiesKilled |-> enemiesKilled, gameTime |-> gameTime,
     bossActive |-> bossActive, bossSpawned |-> bossSpawned,
     upgradeChoice |-> upgradeChoice, coopMode |-> coopMode,
     menuSelection |-> menuSelection, settingsSelection |-> settingsSelection,
     currentStage |-> currentStage, exited |-> exited,
     ev |-> NoEvents(state), bossLog |-> bossLog, nonBossKills |-> nonBossKills]

\* Variant of FirstFree that falls back on slot 0 when no slot is free.
FirstFreeOrFirst(pool, i, n) ==
    IF \E k \in i..(n - 1) : ~pool[k].active
    THEN CHOOSE k \in i..(n - 1) : ~pool[k].active /\ \A j \in i..(k - 1) : pool[j].active
    ELSE 0

\* The index of the first slot at or after i that is not active, or -1.
RECURSIVE FirstFree(_, _, _)
FirstFree(pool, i, n) ==
    IF i >= n THEN -1
    ELSE IF ~pool[i].active THEN i
    ELSE FirstFree(pool, i + 1, n)

\* History of one spawn operation: when every slot of its pool was active at the
\* call, whether the operation left the pool and the boss flags as they were.
CapacityLog(before, after, op, pool) ==
    IF \A i \in DOMAIN before[pool] : before[pool][i].active
    THEN [after EXCEPT !.ev.full = @ \cup
             {[op |-> op, same |-> after[pool] = before[pool],
               bossFlagsSame |-> /\ after.bossActive = before.bossActive
                                 /\ after.bossSpawned = before.bossSpawned]}]
    ELSE after

---------------------------------------------------------------------------
\* CreateExplosion: `count` particles (at most 15), each into the first free slot.
RECURSIVE ExplosionLoop(_, _, _, _)
ExplosionLoop(parts, j, count, life) ==
    IF j >= count THEN parts
    ELSE LET i == FirstFree(parts, 0, maxParticles)
         IN IF i < 0 THEN ExplosionLoop(parts, j + 1, count, life)
            ELSE ExplosionLoop([parts EXCEPT ![i] = [lifetime |-> life, active |-> TRUE]],
                               j + 1, count, life)

CreateExplosion(g, count, rnd) ==
    CapacityLog(g,
        [g EXCEPT !.particles = ExplosionLoop(g.particles, 0, Min(count, 15), rnd.life)],
        "CreateExplosion", "particles")

\* SpawnPowerUp: 30% chance, kind uniform over three, first free slot.
SpawnPowerUp(g, pos, rnd) ==
    IF ~rnd.drop THEN g
    ELSE LET i == FirstFree(g.powerUps, 0, maxPowerUps)
         IN CapacityLog(g,
                IF i < 0 THEN g
                ELSE [g EXCEPT !.powerUps[i] =
                         [position |-> pos, active |-> TRUE, pType |-> rnd.pType]],
                "SpawnPowerUp", "powerUps")

---------------------------------------------------------------------------
\* CheckObstacleCollision.  `diameter` is twice the radius, so that the halves of
\* the source (size/2) stay integers: every term of the comparison is doubled.
CheckObstacleCollision(obs, pos, diameter) ==
    \E i \in ObstacleSlots :
        /\ obs[i].active
        /\ 2 * pos.x + diameter > 2 * obs[i].position.x - obs[i].size.x
        /\ 2 * pos.x - diameter < 2 * obs[i].position.x + obs[i].size.x
        /\ 2 * pos.z + diameter > 2 * obs[i].position.z - obs[i].size.z
        /\ 2 * pos.z - diameter < 2 * obs[i].position.z + obs[i].size.z

\* GenerateMaze: walls at x = -20..20 step 10, then at z = -15..15 step 10.
GenerateMaze(obs) ==
    [i \in ObstacleSlots |->
        IF i < 5
        THEN [position |-> Vec((-20 + 10 * i) * 10, 0), size |-> Vec(20, 150),
              active |-> TRUE, obsType |-> 0]
        ELSE IF i < 9
        THEN [position |-> Vec(0, (-15 + 10 * (i - 5)) * 10), size |-> Vec(150, 20),
              active |-> TRUE, obsType |-> 0]
        ELSE obs[i]]

\* GenerateHazards: ten hazards at a random angle, 10..20 units from the origin.
GenerateHazards(obs, rnd) ==
    [i \in ObstacleSlots |->
        IF i < 10
        THEN [position |-> Polar(rnd.hazard[i].angle, rnd.hazard[i].distance),
              size |-> Vec(30, 30), active |-> TRUE, obsType |-> 1]
        ELSE obs[i]]

\* GenerateArena: north, south, west, east walls.
GenerateArena(obs) ==
    [i \in ObstacleSlots |->
        CASE i = 0 -> [position |-> Vec(0, -180), size |-> Vec(300, 20), active |-> TRUE, obsType |-> 0]
          [] i = 1 -> [position |-> Vec(0, 180), size |-> Vec(300, 20), active |-> TRUE, obsType |-> 0]
          [] i = 2 -> [position |-> Vec(-180, 0), size |-> Vec(20, 300), active |-> TRUE, obsType |-> 0]
          [] i = 3 -> [position |-> Vec(180, 0), size |-> Vec(20, 300), active |-> TRUE, obsType |-> 0]
          [] OTHER -> obs[i]]

\* The stage archetype of a level.
StageOf(lvl) == TruncDiv(lvl - 1, stageInterval) % 4

GenerateStage(g, rnd) ==
    LET cleared == [i \in ObstacleSlots |-> [g.obstacles[i] EXCEPT !.active = FALSE]]
        stage == StageOf(g.level)
    IN [g EXCEPT !.currentStage = stage,
                 !.ev.stageRuns = @ + 1,
                 !.obstacles = CASE stage = StageMaze -> GenerateMaze(cleared)
                                 [] stage = StageHazard -> GenerateHazards(cleared, rnd)
                                 [] stage = StageArena -> GenerateArena(cleared)
                                 [] OTHER -> cleared]

---------------------------------------------------------------------------
\* Variant of StageChange that never regenerates the stage.
StageChangeNever(g, rnd) == g

\* The tail of both level-up paths of KillEnemy: stage change, then upgrade gate.
StageChange(g, rnd) ==
    IF g.level % stageInterval = 1 THEN GenerateStage(g, rnd) ELSE g

\* Variant of UpgradeGate that opens the upgrade screen at every level.
UpgradeGateAnyLevel(g) == [g EXCEPT !.state = StateUpgrade]

\* Lines 934-936 and 956-958: the upgrade screen opens at levels 4, 7, 10, ...
UpgradeGate(g) ==
    IF g.level % 3 = 1 /\ g.level > 1 THEN [g EXCEPT !.state = StateUpgrade] ELSE g

AfterLevelUp(g, rnd) == UpgradeGate(StageChange(g, rnd))

\* Variant of KillCountLevelUp without the test of the level.
KillCountLevelUpAtAnyLevel(g, index) ==
    ~g.enemies[index].isBoss /\ g.enemiesKilled % 20 = 0

\* The guard of the kill-count level-up (line 947).
KillCountLevelUp(g, index) ==
    ~g.enemies[index].isBoss /\ g.enemiesKilled % 20 = 0 /\ g.level % 10 # 0

\* spawnInterval after a kill-count level-up: max(0.5, 1.5 - level*0.05).
SpawnIntervalAt(lvl) == Max(50, 150 - 5 * lvl)

\* Variant of KillReward without the boss branch.
KillRewardFlat(g, isBoss, rnd) == [g EXCEPT !.score = @ + 10 * g.level]

\* Variant of KillReward that leaves bossActive set when the boss dies.
KillRewardBossStays(g, isBoss, rnd) ==
    IF isBoss
    THEN AfterLevelUp(
             [CreateExplosion([g EXCEPT !.score = @ + 500], 50, rnd)
                 EXCEPT !.level = @ + 1, !.bossSpawned = FALSE], rnd)
    ELSE [g EXCEPT !.score = @ + 10 * g.level]

\* Lines 922-936: the boss branch (500 points, level up) or 10 points per level.
KillReward(g, isBoss, rnd) ==
    IF isBoss
    THEN AfterLevelUp(
             [CreateExplosion([g EXCEPT !.score = @ + 500, !.bossActive = FALSE], 50, rnd)
                 EXCEPT !.level = @ + 1, !.bossSpawned = FALSE], rnd)
    ELSE [g EXCEPT !.score = @ + 10 * g.level]

\* Variant of KillCount that leaves the kill counter alone.
KillCountNoIncrement(g, pos, rnd) == SpawnPowerUp(CreateExplosion(g, 15, rnd), pos, rnd)

\* Lines 938-944: the kill counter, the explosion and the drop.
KillCount(g, pos, rnd) ==
    SpawnPowerUp(CreateExplosion([g EXCEPT !.enemiesKilled = @ + 1], 15, rnd), pos, rnd)

\* Lines 947-959: the kill-count level-up.
KillLevelUp(g, index, rnd) ==
    IF KillCountLevelUp(g, index)
    THEN AfterLevelUp([g EXCEPT !.level = @ + 1,
                                !.spawnInterval = SpawnIntervalAt(g.level + 1)], rnd)
    ELSE g

\* History of one KillEnemy call: `before` is the Game it was called on, `after`
\* the Game it leaves.
KillLog(before, after, index) ==
    [after EXCEPT
        !.nonBossKills = IF before.enemies[index].isBoss \/ ~before.enemies[index].active
                         THEN @ ELSE @ + 1,
        !.ev.kills = Append(@,
            [index |-> index,
             wasActive |-> before.enemies[index].active,
             isBoss |-> before.enemies[index].isBoss,
             levelBefore |-> before.level, levelAfter |-> after.level,
             killsBefore |-> before.enemiesKilled,
             killsAfter |-> after.enemiesKilled,
             stateBefore |-> before.state, stateAfter |-> after.state,
             bossActiveAfter |-> after.bossActive,
             bossSpawnedAfter |-> after.bossSpawned,
             stageRuns |-> after.ev.stageRuns - before.ev.stageRuns,
             slotActiveAfter |-> after.enemies[index].active,
             othersSame |-> \A i \in EnemySlots \ {index} :
                               after.enemies[i] = before.enemies[i],
             nonBossKills |-> IF before.enemies[index].isBoss \/ ~before.enemies[index].active
                              THEN before.nonBossKills ELSE before.nonBossKills + 1,
             scoreBefore |-> before.score, scoreAfter |-> after.score,
             difficulty |-> before.difficulty,
             intervalBefore |-> before.spawnInterval,
             intervalAfter |-> after.spawnInterval])]

KillEnemy(g, index, rnd) ==
    KillLog(g,
            KillLevelUp(
                KillCount(
                    KillReward([g EXCEPT !.enemies[index].active = FALSE],
                               g.enemies[index].isBoss, rnd),
                    g.enemies[index].position, rnd),
                index, rnd),
            index)

\* `if enemy.health <= 0 { g.KillEnemy(i) }` after a hit (lines 885-887, 1490-1492).
KillIfDead(g, i, rnd) ==
    IF g.enemies[i].health <= 0 THEN KillEnemy(g, i, rnd) ELSE g

---------------------------------------------------------------------------
\* The starting stats of createPlayer and ResetGame.
BaseStats == [maxHealth |-> 100, damage |-> 1, speed |-> 120, fireRate |-> 15, critChance |-> 5]

SkillSlots == 0..2

\* Explosion 8 s, Radial Shot 10 s, Energy Shield 15 s.
MaxCooldownOf(s) == CASE s = 0 -> 800 [] s = 1 -> 1000 [] s = 2 -> 1500

createPlayer(id, pos) ==
    [position |-> pos, angle |-> 0, health |-> BaseStats.maxHealth, stats |-> BaseStats,
     lastShot |-> 0,
     skills |-> [s \in SkillSlots |->
                    [cooldown |-> 0, maxCooldown |-> MaxCooldownOf(s), ready |-> TRUE]],
     id |-> id]

\* Variant of StartHealth that ignores the difficulty.
StartHealthNormal(d) == 100

\* Starting health of a difficulty (0 easy, 1 normal, 2 hard).
StartHealth(d) == CASE d = 0 -> 150 [] d = 2 -> 75 [] OTHER -> BaseStats.maxHealth
\* Starting spawnInterval of a difficulty.
StartInterval(d) == CASE d = 0 -> 200 [] d = 2 -> 100 [] OTHER -> 150

ResetPlayer(g, i) ==
    [g.players[i] EXCEPT
        !.position = IF g.coopMode THEN (IF i = 0 THEN Vec(-30, 0) ELSE Vec(30, 0)) ELSE ZeroVec,
        !.angle = 0,
        !.stats = [BaseStats EXCEPT !.maxHealth = StartHealth(g.difficulty)],
        !.health = StartHealth(g.difficulty),
        !.lastShot = 0,
        !.skills = [s \in SkillSlots |-> [@[s] EXCEPT !.cooldown = 0, !.ready = TRUE]]]

ResetGame(g, rnd) ==
    GenerateStage(
        [g EXCEPT
            !.players = [i \in DOMAIN g.players |-> ResetPlayer(g, i)],
            !.score = 0, !.level = 1, !.spawnTimer = 0,
            !.spawnInterval = StartInterval(g.difficulty),
            !.enemiesKilled = 0, !.gameTime = 0,
            !.bossActive = FALSE, !.bossSpawned = FALSE,
            !.upgradeChoice = -1, !.currentStage = StageBasic,
            !.enemies = [i \in EnemySlots |-> [g.enemies[i] EXCEPT !.active = FALSE]],
            !.bullets = [i \in BulletSlots |-> [g.bullets[i] EXCEPT !.active = FALSE]],
            !.particles = [i \in ParticleSlots |-> [g.particles[i] EXCEPT !.active = FALSE]],
            !.powerUps = [i \in PowerUpSlots |-> [g.powerUps[i] EXCEPT !.active = FALSE]],
            !.obstacles = [i \in ObstacleSlots |-> [g.obstacles[i] EXCEPT !.active = FALSE]],
            !.bossLog = <<>>,
            !.nonBossKills = 0,
            !.ev.resets = @ + 1],
        rnd)

StartGame(g, coop, rnd) ==
    ResetGame(
        [g EXCEPT
            !.coopMode = coop,
            !.state = StatePlaying,
            !.players = IF coop
                        THEN [i \in 0..1 |-> IF i = 0 THEN createPlayer(0, Vec(-30, 0))
                                                      ELSE createPlayer(1, Vec(30, 0))]
                        ELSE [i \in 0..0 |-> createPlayer(0, ZeroVec)]],
        rnd)

\* One player's stats after upgrade `choice`; any other choice changes nothing.
UpgradePlayer(p, choice) ==
    CASE choice = 0 -> [p EXCEPT !.stats.maxHealth = @ + 20, !.health = p.stats.maxHealth + 20]
      [] choice = 1 -> [p EXCEPT !.stats.damage = @ + 1]
      [] choice = 2 -> [p EXCEPT !.stats.speed = @ + 20]
      [] choice = 3 -> [p EXCEPT !.stats.fireRate = Max(@ - 2, 5)]
      [] choice = 4 -> [p EXCEPT !.stats.critChance = Min(@ + 5, 50)]
      [] OTHER -> p

\* Variant of ApplyUpgrade that upgrades the first player only.
ApplyUpgradeFirstPlayer(g, choice) ==
    [g EXCEPT !.players[0] = UpgradePlayer(@, choice),
              !.state = StatePlaying,
              !.upgradeChoice = -1,
              !.ev.upgrades = Append(@,
                  [choice |-> choice, playersBefore |-> g.players,
                   playersAfter |-> [g.players EXCEPT ![0] = UpgradePlayer(@, choice)],
                   stateBefore |-> g.state, stateAfter |-> StatePlaying,
                   upgradeChoiceBefore |-> g.upgradeChoice, upgradeChoiceAfter |-> -1])]

ApplyUpgrade(g, choice) ==
    [g EXCEPT !.players = [i \in DOMAIN g.players |-> UpgradePlayer(g.players[i], choice)],
              !.state = StatePlaying,
              !.upgradeChoice = -1,
              !.ev.upgrades = Append(@,
                  [choice |-> choice, playersBefore |-> g.players,
                   playersAfter |-> [i \in DOMAIN g.players |->
                                        UpgradePlayer(g.players[i], choice)],
                   stateBefore |-> g.state, stateAfter |-> StatePlaying,
                   upgradeChoiceBefore |-> g.upgradeChoice, upgradeChoiceAfter |-> -1])]

---------------------------------------------------------------------------
\* Per-frame input: dt (GetFrameTime), the keys reported pressed this frame
\* (IsKeyPressed), the keys held (IsKeyDown, IsMouseButtonDown), the direction of
\* the pointer from player 1, and the values math/rand returns in this frame.
Pressed(in, k) == k \in in.pressed
Down(in, k) == k \in in.down

UpdateMenu(g, in) ==
    LET g1 == IF Pressed(in, "Up")
              THEN [g EXCEPT !.menuSelection = IF @ - 1 < 0 THEN 3 ELSE @ - 1] ELSE g
        g2 == IF Pressed(in, "Down")
              THEN [g1 EXCEPT !.menuSelection = IF @ + 1 > 3 THEN 0 ELSE @ + 1] ELSE g1
    IN IF Pressed(in, "Enter") \/ Pressed(in, "Space")
       THEN CASE g2.menuSelection = 0 -> StartGame(g2, FALSE, in.rnd)
              [] g2.menuSelection = 1 -> StartGame(g2, TRUE, in.rnd)
              [] g2.menuSelection = 2 -> [g2 EXCEPT !.state = StateSettings]
              [] OTHER -> [g2 EXCEPT !.exited = TRUE]
       ELSE g2

UpdateSettings(g, in) ==
    LET g1 == IF Pressed(in, "Up")
              THEN [g EXCEPT !.settingsSelection = IF @ - 1 < 0 THEN 5 ELSE @ - 1] ELSE g
        g2 == IF Pressed(in, "Down")
              THEN [g1 EXCEPT !.settingsSelection = IF @ + 1 > 5 THEN 0 ELSE @ + 1] ELSE g1
        g3 == IF (Pressed(in, "Left") \/ Pressed(in, "Right")) /\ g2.settingsSelection = 4
              THEN IF Pressed(in, "Right")
                   THEN [g2 EXCEPT !.difficulty = IF @ + 1 > 2 THEN 2 ELSE @ + 1]
                   ELSE [g2 EXCEPT !.difficulty = IF @ - 1 < 0 THEN 0 ELSE @ - 1]
              ELSE g2
    IN IF Pressed(in, "Escape")
          \/ (g3.settingsSelection = 5 /\ (Pressed(in, "Enter") \/ Pressed(in, "Space")))
       THEN [g3 EXCEPT !.state = StateMenu]
       ELSE g3

\* Variant of UpdateGameOver in which R resumes the game that has ended.
UpdateGameOverNoReset(g, in) ==
    IF Pressed(in, "Escape") THEN [g EXCEPT !.state = StateMenu]
    ELSE IF Pressed(in, "R") THEN [g EXCEPT !.state = StatePlaying] ELSE g

\* case StateGameOver of Update.
EscapeToMenu(g, in) ==
    IF Pressed(in, "Escape") THEN [g EXCEPT !.state = StateMenu] ELSE g

UpdateGameOver(g, in) ==
    EscapeToMenu(IF Pressed(in, "R")
                 THEN [ResetGame(g, in.rnd) EXCEPT !.state = StatePlaying] ELSE g, in)

\* Variant of UpdateUpgrade in which the clock runs on the upgrade screen.
UpdateUpgradeTicking(g, in) == [g EXCEPT !.gameTime = @ + in.dt]

\* case StateUpgrade of Update.
UpgradeKey(g, in, key, choice) ==
    IF Pressed(in, key) THEN ApplyUpgrade(g, choice) ELSE g

UpdateUpgrade(g, in) ==
    UpgradeKey(UpgradeKey(UpgradeKey(UpgradeKey(UpgradeKey(g, in, "One", 0), in, "Two", 1),
                                     in, "Three", 2), in, "Four", 3), in, "Five", 4)

\* Variant of UpdatePaused in which Escape opens the settings.
UpdatePausedToSettings(g, in) ==
    IF Pressed(in, "Escape") THEN [g EXCEPT !.state = StateSettings]
    ELSE IF Pressed(in, "P") THEN [g EXCEPT !.state = StatePlaying] ELSE g

\* case StatePaused of Update.
UpdatePaused(g, in) ==
    EscapeToMenu(IF Pressed(in, "P") THEN [g EXCEPT !.state = StatePlaying] ELSE g, in)

---------------------------------------------------------------------------
\* Variant of CooldownTick that ends the cooldown only below zero.
CooldownTickBelowZero(sk, dt) ==
    IF sk.ready THEN sk
    ELSE IF sk.cooldown - dt < 0
         THEN [sk EXCEPT !.ready = TRUE, !.cooldown = 0]
         ELSE [sk EXCEPT !.cooldown = @ - dt]

\* Variant of CooldownTick that counts every tick twice.
CooldownTickTwice(sk, dt) ==
    IF sk.ready THEN sk
    ELSE IF sk.cooldown - 2 * dt <= 0
         THEN [sk EXCEPT !.ready = TRUE, !.cooldown = 0]
         ELSE [sk EXCEPT !.cooldown = @ - 2 * dt]

\* The cooldown step of one skill (lines 1152-1158).
CooldownTick(sk, dt) ==
    IF sk.ready THEN sk
    ELSE IF sk.cooldown - dt <= 0
         THEN [sk EXCEPT !.ready = TRUE, !.cooldown = 0]
         ELSE [sk EXCEPT !.cooldown = @ - dt]

\* ShootBullet: fire-rate gate, first free slot, speed 40, critical hits triple.
ShootBullet(g, pIdx, rnd) ==
    LET player == g.players[pIdx]
        i == FirstFree(g.bullets, 0, maxBullets)
    IN IF g.gameTime - player.lastShot < player.stats.fireRate THEN g
       ELSE CapacityLog(g,
                IF i < 0 THEN g
                ELSE [g EXCEPT
                        !.bullets[i] =
                            [position |-> player.position,
                             velocity |-> Vec(TruncDiv(Cos1000(player.angle) * 400, 1000),
                                              TruncDiv(Sin1000(player.angle) * 400, 1000)),
                             active |-> TRUE,
                             damage |-> IF rnd.crit /\ player.stats.critChance > 0
                                        THEN player.stats.damage * 3 ELSE player.stats.damage,
                             playerId |-> player.id],
                        !.players[pIdx].lastShot = g.gameTime],
                "ShootBullet", "bullets")

\* Variant of ExplosionSkillLoop that ends the scan at the first death.
RECURSIVE ExplosionSkillFirstDeath(_, _, _, _)
ExplosionSkillFirstDeath(g, pIdx, i, rnd) ==
    IF i >= maxEnemies THEN g
    ELSE IF g.enemies[i].active
            /\ Dist2(g.enemies[i].position, g.players[pIdx].position) < 100 * 100
    THEN IF g.enemies[i].health
               <= (IF g.enemies[i].isBoss THEN 10 * g.players[pIdx].stats.damage
                                          ELSE 3 * g.players[pIdx].stats.damage)
         THEN KillEnemy(
                  CreateExplosion(
                      [g EXCEPT !.enemies[i].health =
                          @ - (IF g.enemies[i].isBoss THEN 10 * g.players[pIdx].stats.damage
                                                      ELSE 3 * g.players[pIdx].stats.damage)],
                      10, rnd),
                  i, rnd)
         ELSE ExplosionSkillFirstDeath(
                  CreateExplosion(
                      [g EXCEPT !.enemies[i].health =
                          @ - (IF g.enemies[i].isBoss THEN 10 * g.players[pIdx].stats.damage
                                                      ELSE 3 * g.players[pIdx].stats.damage)],
                      10, rnd),
                  pIdx, i + 1, rnd)
    ELSE ExplosionSkillFirstDeath(g, pIdx, i + 1, rnd)

\* Skill 0: every active enemy closer than 10 units, in slot order.
RECURSIVE ExplosionSkillLoop(_, _, _, _)
ExplosionSkillLoop(g, pIdx, i, rnd) ==
    IF i >= maxEnemies THEN g
    ELSE IF g.enemies[i].active
            /\ Dist2(g.enemies[i].position, g.players[pIdx].position) < 100 * 100
    THEN ExplosionSkillLoop(
             KillIfDead(
                 CreateExplosion(
                     [g EXCEPT !.enemies[i].health =
                         @ - (IF g.enemies[i].isBoss THEN 10 * g.players[pIdx].stats.damage
                                                     ELSE 3 * g.players[pIdx].stats.damage)],
                     10, rnd),
                 i, rnd),
             pIdx, i + 1, rnd)
    ELSE ExplosionSkillLoop(g, pIdx, i + 1, rnd)

\* Variant of RadialShotLoop that fires a thirteenth bullet at 360 degrees.
RECURSIVE RadialShotThirteen(_, _, _)
RadialShotThirteen(g, pIdx, a) ==
    IF a > 12 THEN g
    ELSE LET i == FirstFree(g.bullets, 0, maxBullets)
         IN IF i < 0 THEN RadialShotThirteen(g, pIdx, a + 1)
            ELSE RadialShotThirteen(
                     [g EXCEPT !.bullets[i] =
                         [position |-> g.players[pIdx].position,
                          velocity |-> Vec(TruncDiv(Cos1000(a % 12) * 350, 1000),
                                           TruncDiv(Sin1000(a % 12) * 350, 1000)),
                          active |-> TRUE,
                          damage |-> g.players[pIdx].stats.damage,
                          playerId |-> g.players[pIdx].id]],
                     pIdx, a + 1)

\* Skill 1: one bullet every 30 degrees into the first free slot, speed 35.
RECURSIVE RadialShotLoop(_, _, _)
RadialShotLoop(g, pIdx, a) ==
    IF a >= 12 THEN g
    ELSE LET i == FirstFree(g.bullets, 0, maxBullets)
         IN IF i < 0 THEN RadialShotLoop(g, pIdx, a + 1)
            ELSE RadialShotLoop(
                     [g EXCEPT !.bullets[i] =
                         [position |-> g.players[pIdx].position,
                          velocity |-> Vec(TruncDiv(Cos1000(a) * 350, 1000),
                                           TruncDiv(Sin1000(a) * 350, 1000)),
                          active |-> TRUE,
                          damage |-> g.players[pIdx].stats.damage,
                          playerId |-> g.players[pIdx].id]],
                     pIdx, a + 1)

\* History of one Explosion skill: the enemies that were active and closer than
\* 10 units when the skill was used, every enemy's health before and after the
\* scan, and the number of KillEnemy calls the scan made for each slot.
BlastLog(before, after, pIdx) ==
    [after EXCEPT !.ev.blasts = Append(@,
        [inRange |-> {i \in EnemySlots :
                        /\ before.enemies[i].active
                        /\ Dist2(before.enemies[i].position,
                                 before.players[pIdx].position) < 100 * 100},
         damage |-> before.players[pIdx].stats.damage,
         isBoss |-> [i \in EnemySlots |-> before.enemies[i].isBoss],
         healthBefore |-> [i \in EnemySlots |-> before.enemies[i].health],
         healthAfter |-> [i \in EnemySlots |-> after.enemies[i].health],
         levelBefore |-> before.level, levelAfter |-> after.level,
         deaths |-> [i \in EnemySlots |->
                       Cardinality({k \in (Len(before.ev.kills) + 1)..Len(after.ev.kills) :
                                       after.ev.kills[k].index = i})]])]

\* History of one Radial Shot: the bullet pool before and after, and the
\* caster's damage and id.
RadialLog(before, after, pIdx) ==
    [after EXCEPT !.ev.radial = Append(@,
        [free |-> {i \in BulletSlots : ~before.bullets[i].active},
         bulletsBefore |-> before.bullets, bulletsAfter |-> after.bullets,
         damage |-> before.players[pIdx].stats.damage,
         id |-> before.players[pIdx].id])]

\* Variant of ShieldHeal without the cap at maxHealth.
ShieldHealUncapped(p) == [p EXCEPT !.health = @ + 30]

\* Skill 2 (lines 908-910): 30 health, up to maxHealth.
ShieldHeal(p) == [p EXCEPT !.health = Min(@ + 30, p.stats.maxHealth)]

\* The effect of a ready skill, before it is put on cooldown.
SkillEffect(g, pIdx, skillIndex, rnd) ==
    CASE skillIndex = 0 ->
            CreateExplosion(BlastLog(g, ExplosionSkillLoop(g, pIdx, 0, rnd), pIdx), 30, rnd)
      [] skillIndex = 1 ->
            RadialLog(g,
                CapacityLog(g, RadialShotLoop(g, pIdx, 0), "RadialShot", "bullets"), pIdx)
      [] skillIndex = 2 ->
            CreateExplosion([g EXCEPT !.players[pIdx] = ShieldHeal(@)], 20, rnd)
      [] OTHER -> g

\* Lines 915-916: the skill goes on cooldown.
StartCooldown(sk) == [sk EXCEPT !.ready = FALSE, !.cooldown = sk.maxCooldown]

\* History of one UseSkill call: whether the skill was ready, whether the call
\* left the Game as it was, and the skill's state after the call.
SkillLog(before, after, pIdx, skillIndex) ==
    [after EXCEPT !.ev.skillCalls = Append(@,
        [player |-> pIdx, skill |-> skillIndex,
         ready |-> before.players[pIdx].skills[skillIndex].ready,
         same |-> [after EXCEPT !.ev = before.ev] = before,
         readyAfter |-> after.players[pIdx].skills[skillIndex].ready,
         cooldownAfter |-> after.players[pIdx].skills[skillIndex].cooldown])]

\* Variant of UseSkill without the readiness check.
UseSkillUnchecked(g, pIdx, skillIndex, rnd) ==
    SkillLog(g,
        [SkillEffect(g, pIdx, skillIndex, rnd) EXCEPT
            !.players[pIdx].skills[skillIndex] = StartCooldown(@),
            !.ev.skillUsed = @ \cup {<<pIdx, skillIndex>>}],
        pIdx, skillIndex)

UseSkill(g, pIdx, skillIndex, rnd) ==
    SkillLog(g,
        IF ~g.players[pIdx].skills[skillIndex].ready THEN g
        ELSE [SkillEffect(g, pIdx, skillIndex, rnd) EXCEPT
                 !.players[pIdx].skills[skillIndex] = StartCooldown(@),
                 !.ev.skillUsed = @ \cup {<<pIdx, skillIndex>>}],
        pIdx, skillIndex)

\* clampPlayerToStageBounds: half the playable width, less the margin.
StageHalf(stage, margin) ==
    CASE stage = StageArena -> 180 - margin
      [] stage = StageMaze -> 280 - margin
      [] stage = StageHazard -> 290 - margin
      [] OTHER -> 300 - margin

Clamp(v, half) == IF v < -half THEN -half ELSE IF v > half THEN half ELSE v

clampPlayerToStageBounds(g, pIdx, margin) ==
    LET half == StageHalf(g.currentStage, margin)
    IN [g EXCEPT !.players[pIdx].position =
            Vec(Clamp(@.x, half), Clamp(@.z, half))]

\* The active enemy nearest to pos (first slot on ties), or -1.
NearestEnemy(g, pos) ==
    LET act == {i \in EnemySlots : g.enemies[i].active}
    IN IF act = {} THEN -1
       ELSE CHOOSE i \in act :
                \A j \in act :
                    \/ Dist2(g.enemies[i].position, pos) < Dist2(g.enemies[j].position, pos)
                    \/ (Dist2(g.enemies[i].position, pos) = Dist2(g.enemies[j].position, pos)
                        /\ i <= j)

\* One direction key of player 2: turn, then shoot.
AimAndShoot(g, pIdx, angle, rnd) ==
    ShootBullet([g EXCEPT !.players[pIdx].angle = angle], pIdx, rnd)

\* Player 1: WASD, shooting with the mouse button or Space, aim from the pointer.
Player1Controls(g, in) ==
    LET g1 == IF Down(in, "MouseLeft") \/ Down(in, "Space") THEN ShootBullet(g, 0, in.rnd) ELSE g
    IN [g1 EXCEPT !.players[0].angle = in.mouse]

\* Player 2: numpad 8/2/4/6 shoot up/down/left/right, numpad 0 at the nearest enemy.
ShootKey(g, in, key, angle) ==
    IF Down(in, key) THEN AimAndShoot(g, 1, angle, in.rnd) ELSE g

AutoAim(g, in) ==
    LET n == NearestEnemy(g, g.players[1].position)
    IN IF Pressed(in, "Kp0") /\ n >= 0
       THEN AimAndShoot(g, 1,
                Atan2(g.enemies[n].position.z - g.players[1].position.z,
                      g.enemies[n].position.x - g.players[1].position.x), in.rnd)
       ELSE g

Player2Controls(g, in) ==
    AutoAim(ShootKey(ShootKey(ShootKey(ShootKey(g, in, "Kp8", 9), in, "Kp2", 3),
                              in, "Kp4", 6), in, "Kp6", 0), in)

\* The position the movement keys ask for (W/S/A/D or the arrow keys).
MoveTarget(pos, speed, in, up, down, left, right) ==
    Vec(pos.x + (IF Down(in, left) THEN -speed ELSE IF Down(in, right) THEN speed ELSE 0),
        pos.z + (IF Down(in, up) THEN -speed ELSE 0) + (IF Down(in, down) THEN speed ELSE 0))

\* The key of skill s: Q/E/F for player 1, numpad or top-row 1/2/3 for player 2.
SkillKeyPressed(pIdx, s, in) ==
    IF pIdx = 0
    THEN Pressed(in, CASE s = 0 -> "Q" [] s = 1 -> "E" [] OTHER -> "F")
    ELSE \/ Pressed(in, CASE s = 0 -> "Kp1" [] s = 1 -> "Kp2" [] OTHER -> "Kp3")
         \/ Pressed(in, CASE s = 0 -> "One" [] s = 1 -> "Two" [] OTHER -> "Three")

SkillKey(g, pIdx, s, in) ==
    IF SkillKeyPressed(pIdx, s, in) THEN UseSkill(g, pIdx, s, in.rnd) ELSE g

\* Lines 1275-1297: the skill keys of one player, in the order 0, 1, 2.
SkillKeys(g, pIdx, in) ==
    SkillKey(SkillKey(SkillKey(g, pIdx, 0, in), pIdx, 1, in), pIdx, 2, in)

\* Lines 1152-1158 for every skill of the player.
TickCooldowns(g, pIdx, dt) ==
    [g EXCEPT !.players[pIdx].skills = [s \in SkillSlots |-> CooldownTick(@[s], dt)]]

\* Player 2 is driven only in co-op.
Controlled(g, pIdx) == pIdx = 0 \/ (pIdx = 1 /\ g.coopMode)

\* Shooting and aiming of the player (lines 1194-1206, 1234-1272).
Controls(g, pIdx, in) ==
    IF pIdx = 0 THEN Player1Controls(g, in)
    ELSE IF Controlled(g, pIdx) THEN Player2Controls(g, in) ELSE g

\* Lines 1301-1305: the move is committed unless it runs into an obstacle.
MovePlayer(g, pIdx, in) ==
    LET speed == Scale(g.players[pIdx].stats.speed, in.dt)
        newPos == IF pIdx = 0
                  THEN MoveTarget(g.players[pIdx].position, speed, in, "W", "S", "A", "D")
                  ELSE IF Controlled(g, pIdx)
                  THEN MoveTarget(g.players[pIdx].position, speed, in,
                                  "Up", "Down", "Left", "Right")
                  ELSE g.players[pIdx].position
    IN IF ~CheckObstacleCollision(g.obstacles, newPos, 18)
       THEN [g EXCEPT !.players[pIdx].position = newPos] ELSE g

SkillInput(g, pIdx, in) ==
    IF Controlled(g, pIdx) THEN SkillKeys(g, pIdx, in) ELSE g

\* The body of the player loop (lines 1147-1312) for player pIdx.
UpdatePlayer(g, pIdx, in) ==
    clampPlayerToStageBounds(
        MovePlayer(SkillInput(Controls(TickCooldowns(g, pIdx, in.dt), pIdx, in), pIdx, in),
                   pIdx, in),
        pIdx, 9)

RECURSIVE UpdatePlayers(_, _, _)
UpdatePlayers(g, pIdx, in) ==
    IF pIdx >= NumPlayers(g) THEN g
    ELSE UpdatePlayers(UpdatePlayer(g, pIdx, in), pIdx + 1, in)

---------------------------------------------------------------------------
\* Variant of UpdateBullets that holds a bullet at the edge of the field.
RECURSIVE UpdateBulletsStopAtEdge(_, _, _)
UpdateBulletsStopAtEdge(g, i, in) ==
    IF i >= maxBullets THEN g
    ELSE IF ~g.bullets[i].active THEN UpdateBulletsStopAtEdge(g, i + 1, in)
    ELSE LET b == g.bullets[i]
             newPos == Vec(Clamp(b.position.x + Scale(b.velocity.x, in.dt), 400),
                           Clamp(b.position.z + Scale(b.velocity.z, in.dt), 400))
         IN IF CheckObstacleCollision(g.obstacles, newPos, 6)
            THEN UpdateBulletsStopAtEdge(
                     CreateExplosion([g EXCEPT !.bullets[i].active = FALSE], 5, in.rnd),
                     i + 1, in)
            ELSE UpdateBulletsStopAtEdge(
                     [g EXCEPT !.bullets[i].position = newPos,
                               !.ev.moved = @ \cup
                                   {[bullet |-> i, from |-> b.position, to |-> newPos]}],
                     i + 1, in)

\* Lines 1315-1337: advance the bullets; an obstacle or the field edge ends one.
RECURSIVE UpdateBullets(_, _, _)
UpdateBullets(g, i, in) ==
    IF i >= maxBullets THEN g
    ELSE IF ~g.bullets[i].active THEN UpdateBullets(g, i + 1, in)
    ELSE LET b == g.bullets[i]
             newPos == Vec(b.position.x + Scale(b.velocity.x, in.dt),
                           b.position.z + Scale(b.velocity.z, in.dt))
         IN IF CheckObstacleCollision(g.obstacles, newPos, 6)
            THEN UpdateBullets(CreateExplosion([g EXCEPT !.bullets[i].active = FALSE], 5, in.rnd),
                               i + 1, in)
            ELSE UpdateBullets(
                     [g EXCEPT !.bullets[i].position = newPos,
                               !.bullets[i].active = ~(Abs(newPos.z) > 400 \/ Abs(newPos.x) > 400),
                               !.ev.moved = @ \cup
                                   {[bullet |-> i, from |-> b.position, to |-> newPos]}],
                     i + 1, in)

\* SpawnBoss: the first free slot, 30 units out, health 50 + 10*level, size 4.
SpawnBoss(g, rnd) ==
    LET i == FirstFree(g.enemies, 0, maxEnemies)
    IN CapacityLog(g,
           IF i < 0 THEN g
           ELSE [g EXCEPT
                    !.enemies[i] =
                        [position |-> Polar(rnd.bossAngle, 300), velocity |-> ZeroVec,
                         active |-> TRUE, health |-> 50 + g.level * 10,
                         maxHealth |-> 50 + g.level * 10, size |-> 40, isBoss |-> TRUE],
                    !.bossActive = TRUE,
                    !.bossSpawned = TRUE,
                    !.bossLog = Append(@, g.level)],
           "SpawnBoss", "enemies")

\* Variant of BossSpawnCheck without the bossSpawned latch.
BossSpawnCheckNoLatch(g, rnd) ==
    IF g.level % 5 = 0 THEN SpawnBoss(g, rnd) ELSE g

\* Lines 1340-1342.
BossSpawnCheck(g, rnd) ==
    IF g.level % 5 = 0 /\ ~g.bossSpawned THEN SpawnBoss(g, rnd) ELSE g

\* The candidate point drawn for slot i: a direction (cosine and sine times
\* 1000) and a distance of 25..30 units.
Candidate(rnd, i) ==
    Vec(TruncDiv(rnd.spawn[i].cos * rnd.spawn[i].distance, 1000),
        TruncDiv(rnd.spawn[i].sin * rnd.spawn[i].distance, 1000))

\* History of SpawnEnemy: the slot a candidate was drawn for and whether an
\* obstacle was in its way.
CandidateLog(g, i, blocked) ==
    [g EXCEPT !.ev.candidates = Append(@, [slot |-> i, blocked |-> blocked])]

\* Variant of SpawnEnemyLoop without the break: a candidate for every free slot.
RECURSIVE SpawnEnemyEverySlot(_, _, _)
SpawnEnemyEverySlot(g, i, rnd) ==
    IF i >= maxEnemies THEN g
    ELSE IF g.enemies[i].active THEN SpawnEnemyEverySlot(g, i + 1, rnd)
    ELSE IF CheckObstacleCollision(g.obstacles, Candidate(rnd, i), 20)
    THEN SpawnEnemyEverySlot(CandidateLog(g, i, TRUE), i + 1, rnd)
    ELSE SpawnEnemyEverySlot(
             [CandidateLog(g, i, FALSE) EXCEPT !.enemies[i] =
                 [position |-> Candidate(rnd, i), velocity |-> ZeroVec, active |-> TRUE,
                  health |-> 1, maxHealth |-> 1, size |-> 10, isBoss |-> FALSE]],
             i + 1, rnd)

\* SpawnEnemy: every free slot in turn draws a candidate point 25..30 units out;
\* the first candidate clear of the obstacles becomes the enemy.
RECURSIVE SpawnEnemyLoop(_, _, _)
SpawnEnemyLoop(g, i, rnd) ==
    IF i >= maxEnemies THEN g
    ELSE IF g.enemies[i].active THEN SpawnEnemyLoop(g, i + 1, rnd)
    ELSE LET pos == Candidate(rnd, i)
         IN IF CheckObstacleCollision(g.obstacles, pos, 20)
            THEN SpawnEnemyLoop(CandidateLog(g, i, TRUE), i + 1, rnd)
            ELSE LET target == g.players[rnd.target % NumPlayers(g)]
                     dx == target.position.x - pos.x
                     dz == target.position.z - pos.z
                     dist == Dist(target.position, pos)
                     speed == 30 + rnd.speed + 5 * g.level
                 IN [CandidateLog(g, i, FALSE) EXCEPT !.enemies[i] =
                        [position |-> pos,
                         velocity |-> IF dist = 0 THEN ZeroVec
                                      ELSE Vec(TruncDiv(dx * speed, dist), TruncDiv(dz * speed, dist)),
                         active |-> TRUE,
                         health |-> 1 + (g.level - 1) \div 3,
                         maxHealth |-> 1 + (g.level - 1) \div 3,
                         size |-> 10 + rnd.size,
                         isBoss |-> FALSE]]

SpawnEnemy(g, rnd) == CapacityLog(g, SpawnEnemyLoop(g, 0, rnd), "SpawnEnemy", "enemies")

\* Variant of SpawnStep without the cap on the enemies alive.
SpawnStepNoCap(g, in) ==
    IF g.bossActive THEN g
    ELSE IF g.spawnTimer + in.dt > g.spawnInterval
         THEN SpawnEnemy([g EXCEPT !.spawnTimer = 0], in.rnd)
         ELSE [g EXCEPT !.spawnTimer = g.spawnTimer + in.dt]

\* History of one evaluation of the spawn step (lines 1344-1359): the boss
\* flag it read, the timer before and after it, and whether it left the
\* enemy pool alone.
SpawnStepLog(before, after, dt) ==
    [after EXCEPT !.ev.spawnSteps =
        Append(@, [bossActive  |-> before.bossActive,
                   timerBefore |-> before.spawnTimer,
                   timerAfter  |-> after.spawnTimer,
                   interval    |-> before.spawnInterval,
                   dt          |-> dt,
                   enemiesSame |-> after.enemies = before.enemies])]

\* The spawn step with a timer that keeps running under a boss.
SpawnStepThroughBoss(g, in) ==
    SpawnStepLog(g,
        [g EXCEPT !.spawnTimer = IF @ + in.dt > g.spawnInterval THEN 0 ELSE @ + in.dt],
        in.dt)

\* Lines 1344-1359: the spawn timer, frozen while a boss is active.
SpawnStep(g, in) ==
    SpawnStepLog(g,
        IF g.bossActive THEN g
        ELSE LET t == g.spawnTimer + in.dt
                 activeCount == Cardinality({i \in EnemySlots :
                                    g.enemies[i].active /\ ~g.enemies[i].isBoss})
             IN IF t > g.spawnInterval
                THEN IF activeCount < 10 + g.level * 2
                     THEN SpawnEnemy([g EXCEPT !.spawnTimer = 0], in.rnd)
                     ELSE [g EXCEPT !.spawnTimer = 0]
                ELSE [g EXCEPT !.spawnTimer = t],
        in.dt)

\* The player nearest to pos (lowest index on ties).
NearestPlayer(g, pos) ==
    CHOOSE p \in DOMAIN g.players :
        \A q \in DOMAIN g.players :
            \/ Dist2(g.players[p].position, pos) < Dist2(g.players[q].position, pos)
            \/ (Dist2(g.players[p].position, pos) = Dist2(g.players[q].position, pos) /\ p <= q)

\* The direction index of an angle of t/100 radians (the boss's orbit phase).
OrbitAngle(t) == ((t * 60) \div 3142) % 12

\* Lines 1382-1418: the boss closes in from beyond 5 units, else circles at 8.
BossMove(g, i, in) ==
    LET e == g.enemies[i]
        np == g.players[NearestPlayer(g, e.position)]
        dx == np.position.x - e.position.x
        dz == np.position.z - e.position.z
        dist == Dist(np.position, e.position)
        speed == 60 + 3 * g.level
        tx == np.position.x + TruncDiv(Cos1000(OrbitAngle(g.gameTime)) * 80, 1000)
        tz == np.position.z + TruncDiv(Sin1000(OrbitAngle(g.gameTime)) * 80, 1000)
        newPos == IF Dist2(np.position, e.position) > 50 * 50
                  THEN Vec(e.position.x + TruncDiv(dx * speed * in.dt, dist * 100),
                           e.position.z + TruncDiv(dz * speed * in.dt, dist * 100))
                  ELSE Vec(e.position.x + TruncDiv((tx - e.position.x) * 8 * in.dt, 1000),
                           e.position.z + TruncDiv((tz - e.position.z) * 8 * in.dt, 1000))
    IN IF ~CheckObstacleCollision(g.obstacles, newPos, e.size)
       THEN [g EXCEPT !.enemies[i].position = newPos] ELSE g

\* Lines 1420-1440: a normal enemy turns toward the nearest player at its own speed.
EnemyMove(g, i, in) ==
    LET e == g.enemies[i]
        np == g.players[NearestPlayer(g, e.position)]
        dx == np.position.x - e.position.x
        dz == np.position.z - e.position.z
        dist == Dist(np.position, e.position)
        speed == Sqrt(e.velocity.x * e.velocity.x + e.velocity.z * e.velocity.z)
        vel == IF Dist2(np.position, e.position) > 1
               THEN Vec(TruncDiv(dx * speed, dist), TruncDiv(dz * speed, dist))
               ELSE e.velocity
        newPos == Vec(e.position.x + Scale(vel.x, in.dt), e.position.z + Scale(vel.z, in.dt))
        g1 == [g EXCEPT !.enemies[i].velocity = vel]
    IN IF ~CheckObstacleCollision(g.obstacles, newPos, e.size)
       THEN [g1 EXCEPT !.enemies[i].position = newPos] ELSE g1

\* Variant of LethalCheck that records the score of every game that ends.
LethalCheckOverwrite(g, pIdx) ==
    IF g.players[pIdx].health <= 0
    THEN [g EXCEPT !.state = StateGameOver, !.highScore = g.score, !.ev.lethal = TRUE]
    ELSE g

\* The lethal branch of a contact (lines 1470-1475).
LethalCheck(g, pIdx) ==
    IF g.players[pIdx].health <= 0
    THEN [g EXCEPT !.state = StateGameOver,
                   !.highScore = IF g.score > @ THEN g.score ELSE @,
                   !.ev.lethal = TRUE]
    ELSE g

\* Lines 1444-1477: enemy i against every player in turn.
RECURSIVE PlayerContacts(_, _, _, _)
PlayerContacts(g, i, pIdx, rnd) ==
    IF pIdx >= NumPlayers(g) THEN g
    ELSE LET e == g.enemies[i]
             player == g.players[pIdx]
             d2 == Dist2(player.position, e.position)
             playerDist == Dist(player.position, e.position)
             collisionDist == IF e.isBoss THEN 30 ELSE 15
             damage == IF e.isBoss THEN 30 ELSE 20
         IN IF d2 < collisionDist * collisionDist
            THEN LET g1 == CreateExplosion([g EXCEPT !.players[pIdx].health = @ - damage], 10, rnd)
                     g2 == IF d2 > 0
                           THEN [g1 EXCEPT !.enemies[i].position =
                                    Vec(@.x + TruncDiv((e.position.x - player.position.x) * 30, playerDist),
                                        @.z + TruncDiv((e.position.z - player.position.z) * 30, playerDist))]
                           ELSE g1
                 IN PlayerContacts(LethalCheck(g2, pIdx), i, pIdx + 1, rnd)
            ELSE PlayerContacts(g, i, pIdx + 1, rnd)

\* Lines 1480-1496: every active bullet inside enemy i's radius hits it.
RECURSIVE BulletHits(_, _, _, _)
BulletHits(g, i, j, rnd) ==
    IF j >= maxBullets THEN g
    ELSE IF g.bullets[j].active
            /\ Dist2(g.bullets[j].position, g.enemies[i].position)
                   < g.enemies[i].size * g.enemies[i].size
    THEN BulletHits(
             KillIfDead(
                 CreateExplosion(
                     [g EXCEPT !.enemies[i].health = @ - g.bullets[j].damage,
                               !.bullets[j].active = FALSE,
                               !.ev.hits = @ \cup {[bullet |-> j, enemy |-> i]}], 5, rnd),
                 i, rnd),
             i, j + 1, rnd)
    ELSE BulletHits(g, i, j + 1, rnd)

\* Lines 1362-1497: the enemy loop.
RECURSIVE UpdateEnemies(_, _, _)
UpdateEnemies(g, i, in) ==
    IF i >= maxEnemies THEN g
    ELSE IF ~g.enemies[i].active THEN UpdateEnemies(g, i + 1, in)
    ELSE UpdateEnemies(
             BulletHits(
                 PlayerContacts(
                     IF g.enemies[i].isBoss THEN BossMove(g, i, in) ELSE EnemyMove(g, i, in),
                     i, 0, in.rnd),
                 i, 0, in.rnd),
             i + 1, in)

\* Lines 1500-1512: particles age and expire.
UpdateParticles(g, in) ==
    [g EXCEPT !.particles =
        [i \in ParticleSlots |->
            IF ~@[i].active THEN @[i]
            ELSE [lifetime |-> @[i].lifetime - in.dt, active |-> @[i].lifetime - in.dt > 0]]]

\* The effect of a pickup on the player who takes it.
PickupEffect(p, pType) ==
    CASE pType = 0 -> [p EXCEPT !.health = Min(@ + 30, p.stats.maxHealth)]
      [] pType = 1 -> [p EXCEPT !.stats.speed = Min(@ + 20, 200)]
      [] pType = 2 -> [p EXCEPT !.stats.fireRate = Max(@ - 2, 5)]
      [] OTHER -> p

\* Variant of FirstInRange: the last player of the loop.
LastInRange(near) == CHOOSE q \in near : \A r \in near : q >= r

\* The player loop over a pickup stops at the first player in range (line 1538).
FirstInRange(near) == CHOOSE q \in near : \A r \in near : q <= r

\* Lines 1515-1543: the first player within 2 units of an active pickup takes it.
RECURSIVE UpdatePowerUps(_, _, _)
UpdatePowerUps(g, i, rnd) ==
    IF i >= maxPowerUps THEN g
    ELSE LET near == {p \in DOMAIN g.players :
                         Dist2(g.players[p].position, g.powerUps[i].position) < 20 * 20}
         IN IF g.powerUps[i].active /\ near # {}
            THEN LET p == FirstInRange(near)
                 IN UpdatePowerUps(
                        CreateExplosion(
                            [g EXCEPT !.powerUps[i].active = FALSE,
                                      !.players[p] = PickupEffect(@, g.powerUps[i].pType),
                                      !.ev.pickups = Append(@,
                                          [index |-> i, taker |-> p, near |-> near,
                                           pType |-> g.powerUps[i].pType,
                                           playersBefore |-> g.players,
                                           playersAfter |-> [g.players EXCEPT ![p] =
                                               PickupEffect(@, g.powerUps[i].pType)]])],
                            8, rnd),
                        i + 1, rnd)
            ELSE UpdatePowerUps(g, i + 1, rnd)

\* The Playing branch of Update after the pause check (lines 1144-1561).
Simulate(g, in) ==
    UpdatePowerUps(
        UpdateParticles(
            UpdateEnemies(
                SpawnStep(
                    BossSpawnCheck(
                        UpdateBullets(
                            UpdatePlayers(
                                [g EXCEPT !.gameTime = @ + in.dt, !.ev.simulated = TRUE],
                                0, in),
                            0, in),
                        in.rnd),
                    in),
                0, in),
            in),
        0, in.rnd)

\* Variant of UpdatePlaying whose pausing call still advances the clock.
UpdatePlayingPauseLate(g, in) ==
    IF Pressed(in, "P") THEN [g EXCEPT !.state = StatePaused, !.gameTime = @ + in.dt]
    ELSE Simulate(g, in)

\* Lines 1139-1142, then the simulation.
UpdatePlaying(g, in) ==
    IF Pressed(in, "P") THEN [g EXCEPT !.state = StatePaused] ELSE Simulate(g, in)

---------------------------------------------------------------------------
\* Update: the switch on g.state.
Update(g, in) ==
    CASE g.state = StateMenu -> UpdateMenu(g, in)
      [] g.state = StateSettings -> UpdateSettings(g, in)
      [] g.state = StateGameOver -> UpdateGameOver(g, in)
      [] g.state = StateUpgrade -> UpdateUpgrade(g, in)
      [] g.state = StatePaused -> UpdatePaused(g, in)
      [] OTHER -> UpdatePlaying(g, in)

\* History of the skills: the time simulated since each skill's last activation
\* (-1 before the first one); it stops counting at maxCooldown.
SinceUseAfter(r, in) ==
    IF ~r.ev.simulated THEN sinceUse
    ELSE [p \in 0..1 |-> [s \in SkillSlots |->
            IF <<p, s>> \in r.ev.skillUsed THEN 0
            ELSE IF sinceUse[p][s] < 0 THEN -1
            ELSE Min(sinceUse[p][s] + in.dt, MaxCooldownOf(s))]]

\* History of the skills: whether ResetGame has run since the last activation.
ResetSinceAfter(r) ==
    [p \in 0..1 |-> [s \in SkillSlots |->
        IF <<p, s>> \in r.ev.skillUsed THEN FALSE
        ELSE resetSince[p][s] \/ r.ev.resets > 0]]

\* What a pause must leave alone: the clock, the timers, the score, the
\* level, the players with their skills, and every pool.
Snapshot(g) ==
    [gameTime |-> g.gameTime, spawnTimer |-> g.spawnTimer, score |-> g.score,
     level |-> g.level, players |-> g.players, enemies |-> g.enemies,
     bullets |-> g.bullets, particles |-> g.particles, powerUps |-> g.powerUps,
     obstacles |-> g.obstacles]

\* History of a pause: taken before the call that enters Paused, kept through
\* the paused frames and the frame that resumes, dropped after that.
AtPauseAfter(r) ==
    IF state = StatePaused /\ r.state \in {StatePaused, StatePlaying} THEN atPause
    ELSE IF r.state = StatePaused THEN <<Snapshot(Game)>>
    ELSE <<>>

\* The variables take the fields of the Game value r that a call leaves.
Becomes(r) ==
    /\ state' = r.state
    /\ players' = r.players
    /\ enemies' = r.enemies
    /\ bullets' = r.bullets
    /\ particles' = r.particles
    /\ powerUps' = r.powerUps
    /\ obstacles' = r.obstacles
    /\ difficulty' = r.difficulty
    /\ score' = r.score
    /\ highScore' = r.highScore
    /\ level' = r.level
    /\ spawnTimer' = r.spawnTimer
    /\ spawnInterval' = r.spawnInterval
    /\ enemiesKilled' = r.enemiesKilled
    /\ gameTime' = r.gameTime
    /\ bossActive' = r.bossActive
    /\ bossSpawned' = r.bossSpawned
    /\ upgradeChoice' = r.upgradeChoice
    /\ coopMode' = r.coopMode
    /\ menuSelection' = r.menuSelection
    /\ settingsSelection' = r.settingsSelection
    /\ currentStage' = r.currentStage
    /\ exited' = r.exited
    /\ ev' = r.ev
    /\ bossLog' = r.bossLog
    /\ nonBossKills' = r.nonBossKills

\* One call of Update with the frame's input.
Frame(in) ==
    \E r \in {Update(Game, in)} :
       /\ ~exited
       /\ Becomes(r)
       /\ sinceUse' = SinceUseAfter(r, in)
       /\ resetSince' = ResetSinceAfter(r)
       /\ ticks' = IF r.ev.simulated THEN ticks + 1 ELSE ticks
       /\ atPause' = AtPauseAfter(r)

\* The handlers of Update, one per game state.  At most MaxTicks ticks are
\* simulated in a run; pausing stays possible after that.
MenuFrame(in) == state = StateMenu /\ Frame(in)
SettingsFrame(in) == state = StateSettings /\ Frame(in)
GameOverFrame(in) == state = StateGameOver /\ Frame(in)
UpgradeFrame(in) == state = StateUpgrade /\ Frame(in)
PausedFrame(in) == state = StatePaused /\ Frame(in)
PlayingFrame(in) ==
    state = StatePlaying /\ (Pressed(in, "P") \/ ticks < MaxTicks) /\ Frame(in)

---------------------------------------------------------------------------
\* NewGame: the zero Game with the menu showing and normal difficulty.
NewGame ==
    [state |-> StateMenu, players |-> <<>>,
     enemies |-> [i \in EnemySlots |-> ZeroEnemy],
     bullets |-> [i \in BulletSlots |-> ZeroBullet],
     particles |-> [i \in ParticleSlots |-> ZeroParticle],
     powerUps |-> [i \in PowerUpSlots |-> ZeroPowerUp],
     obstacles |-> [i \in ObstacleSlots |-> ZeroObstacle],
     difficulty |-> 1, score |-> 0, highScore |-> 0, level |-> 0,
     spawnTimer |-> 0, spawnInterval |-> 0, enemiesKilled |-> 0, gameTime |-> 0,
     bossActive |-> FALSE, bossSpawned |-> FALSE, upgradeChoice |-> 0,
     coopMode |-> FALSE, menuSelection |-> 0, settingsSelection |-> 0,
     currentStage |-> StageBasic, exited |-> FALSE,
     bossLog |-> <<>>, nonBossKills |-> 0]

\* A solo game on normal difficulty some minutes in, first game of the process:
\* the player stands at the origin, the stage is the basic one (levels 1..10),
\* no skill has been used yet.
MidGame(lvl, kills, nonBoss, pts, interval, time, health, stats, es, log, boss) ==
    [NewGame EXCEPT
        !.state = StatePlaying,
        !.players = [i \in 0..0 |->
                        [createPlayer(0, ZeroVec) EXCEPT
                            !.health = health, !.stats = stats, !.lastShot = time - 100]],
        !.enemies = es,
        !.score = pts, !.level = lvl, !.spawnInterval = interval,
        !.enemiesKilled = kills, !.gameTime = time,
        !.bossActive = boss, !.bossSpawned = boss, !.upgradeChoice = -1,
        !.bossLog = log, !.nonBossKills = nonBoss]

Enemy(pos, vel, health, maxHealth, size, isBoss) ==
    [position |-> pos, velocity |-> vel, active |-> TRUE, health |-> health,
     maxHealth |-> maxHealth, size |-> size, isBoss |-> isBoss]

\* An enemy of radius 1.4 heading for the origin, one 0.1 s step away from a
\* point about 1.4 units from it.
Closing(health, speed) ==
    Enemy(Vec(13 + TruncDiv(965 * speed, 10000), 4 + TruncDiv(263 * speed, 10000)),
          Vec(TruncDiv(-965 * speed, 1000), TruncDiv(-263 * speed, 1000)),
          health, health, 14, FALSE)

\* Level 3 after 59 kills (200 + 400 + 19*30 points), health down to 20, one enemy
\* about to touch the player.
LastKillOfLevel3 ==
    MidGame(3, 59, 59, 1170, 135, 12000, 20, BaseStats,
            [i \in EnemySlots |-> IF i = 0 THEN Closing(1, 45) ELSE ZeroEnemy],
            <<>>, FALSE)

\* Level 3 after 45 kills, health down to 20, an enemy on either side.
Surrounded ==
    MidGame(3, 45, 45, 750, 135, 10000, 20, BaseStats,
            [i \in EnemySlots |->
                CASE i = 0 -> Enemy(Vec(-18, 0), Vec(45, 0), 1, 1, 10, FALSE)
                  [] i = 1 -> Closing(1, 45)
                  [] OTHER -> ZeroEnemy],
            <<>>, FALSE)

\* Level 6 after 99 kills, one of them the boss of level 5 (killed at 80 kills):
\* 2000 points at level 5, 500 for the boss, 18 kills at level 6; the level-4
\* upgrade went to damage.
AfterFirstBoss ==
    MidGame(6, 99, 98, 3580, 125, 20000, 100, [BaseStats EXCEPT !.damage = 2],
            [i \in EnemySlots |-> IF i = 0 THEN Closing(2, 70) ELSE ZeroEnemy],
            <<5>>, FALSE)

\* Level 9 after 159 kills (boss of level 5 killed at 80 kills, level-ups at 100,
\* 120 and 140); the upgrades of levels 4 and 7 went to damage.
LastKillOfLevel9 ==
    MidGame(9, 159, 158, 8350, 105, 30000, 100, [BaseStats EXCEPT !.damage = 3],
            [i \in EnemySlots |-> IF i = 0 THEN Closing(3, 85) ELSE ZeroEnemy],
            <<5>>, FALSE)

\* Level 10 (reached at 160 kills) with its boss worn down and one enemy left
\* from level 9; 19 kills at level 10 so far; upgrades: damage twice, health once.
BossOfLevel10 ==
    MidGame(10, 179, 178, 10340, 100, 36000, 100,
            [BaseStats EXCEPT !.damage = 3, !.maxHealth = 120],
            [i \in EnemySlots |->
                CASE i = 0 -> Closing(3, 85)
                  [] i = 1 -> Enemy(Vec(40, 40), ZeroVec, 3, 150, 40, TRUE)
                  [] OTHER -> ZeroEnemy],
            <<5, 10>>, TRUE)

\* Level 5 (reached at 80 kills) with its boss worn down to 2 health; the
\* level-4 upgrade went to damage.
BossOfLevel5 ==
    [MidGame(5, 80, 80, 2000, 125, 16000, 100, [BaseStats EXCEPT !.damage = 2],
            [i \in EnemySlots |->
                IF i = 0 THEN Enemy(Vec(40, 40), ZeroVec, 2, 100, 40, TRUE) ELSE ZeroEnemy],
            <<5>>, TRUE)
     EXCEPT !.spawnTimer = 40]

\* Level 20 in the maze (levels 11..20) after 320 kills, three of them bosses;
\* the six upgrades went to damage and health, three each.  The player stands
\* between two walls, and the boss of level 20, down to 4 health, has just been
\* pushed back 3 units by a contact.
BossOfLevel20 ==
    [MidGame(20, 320, 317, 33170, 50, 60000, 130,
             [BaseStats EXCEPT !.damage = 4, !.maxHealth = 160],
             [i \in EnemySlots |->
                 IF i = 0 THEN Enemy(Vec(50, 55), ZeroVec, 4, 250, 40, TRUE) ELSE ZeroEnemy],
             <<5, 10, 15, 20>>, TRUE)
     EXCEPT
        !.currentStage = StageMaze,
        !.obstacles = GenerateMaze(@),
        !.players[0].position = Vec(50, 0)]

\* Level 32 in the arena (levels 31..40) after 505 kills, six of them bosses; the
\* ten upgrades went to damage and health, five each.  Three bullets are in
\* flight, two toward the east wall and one toward the north wall, and an enemy
\* stands outside the east wall, which is in its way.
ArenaStage ==
    [MidGame(32, 505, 499, 81690, 50, 90000, 140,
             [BaseStats EXCEPT !.damage = 6, !.maxHealth = 200],
             [i \in EnemySlots |->
                 IF i = 0 THEN Enemy(Vec(210, 0), Vec(-210, 0), 11, 11, 14, FALSE)
                 ELSE ZeroEnemy],
             <<5, 10, 15, 20, 25, 30>>, FALSE)
     EXCEPT
        !.currentStage = StageArena,
        !.obstacles = GenerateArena(@),
        !.bullets = [i \in BulletSlots |->
            CASE i = 0 -> [position |-> Vec(140, 0), velocity |-> Vec(400, 0),
                           active |-> TRUE, damage |-> 6, playerId |-> 0]
              [] i = 1 -> [position |-> Vec(160, 0), velocity |-> Vec(400, 0),
                           active |-> TRUE, damage |-> 6, playerId |-> 0]
              [] i = 2 -> [position |-> Vec(0, -100), velocity |-> Vec(0, -400),
                           active |-> TRUE, damage |-> 6, playerId |-> 0]
              [] OTHER -> ZeroBullet]]

\* A co-op game at level 1 after three kills, two of which dropped a health
\* pickup: one lies between the players, within 2 units of both, the other
\* within 2 units of player 2 only.
CoopPickup ==
    [MidGame(1, 3, 3, 30, 150, 3000, 100, BaseStats,
             [i \in EnemySlots |-> ZeroEnemy], <<>>, FALSE)
     EXCEPT
        !.coopMode = TRUE,
        !.players = [i \in 0..1 |->
            [createPlayer(i, IF i = 0 THEN Vec(-10, 0) ELSE Vec(10, 0)) EXCEPT
                !.health = 50 + 10 * i, !.lastShot = 2900]],
        !.powerUps = [i \in PowerUpSlots |->
            CASE i = 0 -> [position |-> ZeroVec, active |-> TRUE, pType |-> 0]
              [] i = 1 -> [position |-> Vec(25, 0), active |-> TRUE, pType |-> 0]
              [] OTHER -> ZeroPowerUp]]

\* Level 15 in the maze after 259 kills, two of them bosses (killed as the 81st
\* and the 161st kill); the four upgrades went to health.  The boss of level 15
\* is 7 units from the player, a wounded enemy 3 units, a fresh one 5 units, and
\* one more stands behind a wall 13 units away.
BossOfLevel15 ==
    [MidGame(15, 259, 257, 21680, 75, 70000, 100, [BaseStats EXCEPT !.maxHealth = 180],
             [i \in EnemySlots |->
                 CASE i = 0 -> Enemy(Vec(50, -30), Vec(-100, 0), 2, 5, 14, FALSE)
                   [] i = 1 -> Enemy(Vec(70, 20), ZeroVec, 200, 200, 40, TRUE)
                   [] i = 2 -> Enemy(Vec(50, 100), Vec(-20, -100), 5, 5, 14, FALSE)
                   [] i = 3 -> Enemy(Vec(60, 0), Vec(-80, -60), 5, 5, 14, FALSE)
                   [] OTHER -> ZeroEnemy],
             <<5, 10, 15>>, TRUE)
     EXCEPT
        !.currentStage = StageMaze,
        !.obstacles = GenerateMaze(@),
        !.players[0].position = Vec(20, -30)]

\* The second game of the process (the first ended with 2000 points), level 1
\* after 5 kills: twelve enemies are alive, which is the spawn cap of level 1,
\* one of them about to touch the player, whose health is down to 20; the spawn
\* timer is about to fire.
Crowded ==
    [MidGame(1, 5, 5, 50, 150, 2400, 20, BaseStats,
             [i \in EnemySlots |->
                 IF i = 0 THEN Closing(1, 45)
                 ELSE IF i < 12
                 THEN Enemy(Polar(i, 200), Polar(i, -40), 1, 1, 14, FALSE)
                 ELSE ZeroEnemy],
             <<>>, FALSE)
     EXCEPT !.highScore = 2000, !.spawnTimer = 145]

\* A solo game on hard difficulty that has just ended at level 2 after 25 kills,
\* the first game of the process: the fourth contact took the 75 health to -5.
\* The Explosion skill is on cooldown, an enemy, a bullet and a particle are
\* still in play.
GameOverHard ==
    [MidGame(2, 25, 25, 300, 140, 4000, -5, [BaseStats EXCEPT !.maxHealth = 75],
             [i \in EnemySlots |->
                 IF i = 0 THEN Enemy(Vec(40, 12), Vec(-38, -11), 1, 1, 14, FALSE)
                 ELSE ZeroEnemy],
             <<>>, FALSE)
     EXCEPT
        !.state = StateGameOver, !.difficulty = 2, !.highScore = 300,
        !.spawnTimer = 60,
        !.players[0].skills[0] = [@ EXCEPT !.ready = FALSE, !.cooldown = 300],
        !.bullets[0] = [position |-> Vec(120, 0), velocity |-> Vec(400, 0),
                        active |-> TRUE, damage |-> 1, playerId |-> 0],
        !.particles[0] = [lifetime |-> 40, active |-> TRUE]]

\* A co-op game on easy difficulty that has just ended at level 1 after 12 kills;
\* an earlier game of the process ended with 1170 points.  Player 1 is down
\* to -10 of 150 health, player 2 has 90 left.
GameOverEasy ==
    [MidGame(1, 12, 12, 120, 200, 5000, -10, [BaseStats EXCEPT !.maxHealth = 150],
             [i \in EnemySlots |->
                 IF i = 0 THEN Enemy(Vec(-70, 12), Vec(38, -11), 1, 1, 14, FALSE)
                 ELSE ZeroEnemy],
             <<>>, FALSE)
     EXCEPT
        !.state = StateGameOver, !.difficulty = 0, !.highScore = 1170,
        !.coopMode = TRUE,
        !.players = [i \in 0..1 |->
            [createPlayer(i, IF i = 0 THEN Vec(-30, 0) ELSE Vec(30, 0)) EXCEPT
                !.health = IF i = 0 THEN -10 ELSE 90,
                !.stats.maxHealth = 150, !.lastShot = 4900]],
        !.powerUps[0] = [position |-> Vec(100, 100), active |-> TRUE, pType |-> 1]]

\* A game on hard difficulty (75 health, spawnInterval 1.0) at level 1 after 19
\* kills, health down to 40, one enemy about to touch the player.
HardLastKillOfLevel1 ==
    [MidGame(1, 19, 19, 190, 100, 3000, 40, [BaseStats EXCEPT !.maxHealth = 75],
             [i \in EnemySlots |-> IF i = 0 THEN Closing(1, 45) ELSE ZeroEnemy],
             <<>>, FALSE)
     EXCEPT !.difficulty = 2]

\* The arena game of ArenaStage with its ten upgrades spent on speed and
\* damage, five each (speed 12 + 5 * 2 = 22), and a speed pickup one unit away.
SpeedPickup ==
    [ArenaStage EXCEPT
        !.players[0].stats = [BaseStats EXCEPT !.speed = 220, !.damage = 6],
        !.players[0].health = 60,
        !.powerUps[0] = [position |-> Vec(10, 0), active |-> TRUE, pType |-> 1]]

\* The states a run starts from: a new process, a game in progress, or a game
\* that has just ended.
Starts == {NewGame, LastKillOfLevel3, Surrounded, AfterFirstBoss, LastKillOfLevel9,
           BossOfLevel10, BossOfLevel5, BossOfLevel20, ArenaStage, CoopPickup,
           BossOfLevel15, Crowded, GameOverHard, GameOverEasy}

\* The variables hold the Game value g, and the history is empty.
Start(g) ==
    /\ state = g.state
    /\ players = g.players
    /\ enemies = g.enemies
    /\ bullets = g.bullets
    /\ particles = g.particles
    /\ powerUps = g.powerUps
    /\ obstacles = g.obstacles
    /\ difficulty = g.difficulty
    /\ score = g.score /\ highScore = g.highScore /\ level = g.level
    /\ spawnTimer = g.spawnTimer /\ spawnInterval = g.spawnInterval
    /\ enemiesKilled = g.enemiesKilled /\ gameTime = g.gameTime
    /\ bossActive = g.bossActive /\ bossSpawned = g.bossSpawned
    /\ upgradeChoice = g.upgradeChoice /\ coopMode = g.coopMode
    /\ menuSelection = g.menuSelection /\ settingsSelection = g.settingsSelection
    /\ currentStage = g.currentStage
    /\ exited = g.exited
    /\ ev = NoEvents(g.state)
    /\ bossLog = g.bossLog
    /\ sinceUse = [p \in 0..1 |-> [s \in SkillSlots |-> -1]]
    /\ resetSince = [p \in 0..1 |-> [s \in SkillSlots |-> FALSE]]
    /\ nonBossKills = g.nonBossKills
    /\ ticks = 0
    /\ atPause = <<>>

Init == \E g \in Starts : Start(g)

---------------------------------------------------------------------------
\* The values math/rand returns in one frame.
Rnd(angle, dist, speed, size, drop, pType, crit, life) ==
    [spawn |-> [i \in EnemySlots |->
                   [cos |-> Cos1000(angle), sin |-> Sin1000(angle), distance |-> dist]],
     target |-> 0,
     speed |-> speed, size |-> size, bossAngle |-> angle,
     drop |-> drop, pType |-> pType, crit |-> crit, life |-> life,
     hazard |-> [k \in 0..9 |-> [angle |-> k, distance |-> 150]]]

\* A frame's input: keys pressed in this frame are also down.
In(dt, pressed, held, mouse, rnd) ==
    [dt |-> dt, pressed |-> pressed, down |-> pressed \cup held, mouse |-> mouse, rnd |-> rnd]

NoDrop == Rnd(0, 280, 10, 4, FALSE, 0, FALSE, 100)
Drop == Rnd(0, 280, 10, 4, TRUE, 0, FALSE, 100)

\* The candidate drawn for slot 1 lies 25 units out at about 52 degrees, which
\* in the arena is at the end of the south wall; the others lie due east.
Corner ==
    [NoDrop EXCEPT !.spawn[1] = [cos |-> 618, sin |-> 786, distance |-> 250]]

\* A frame with these keys going down and nothing else happening.
Keys(ks) == In(10, ks, {}, 0, NoDrop)

\* Frames of 0.1 s with one key, or the fire button held; one stall of 8 s.
PlayInputs ==
    {Keys({}), Keys({"P"}), Keys({"Q"}), Keys({"E"}), Keys({"F"}),
     In(10, {}, {"Space"}, 0, NoDrop), In(10, {}, {"Space"}, 0, Drop),
     In(800, {}, {}, 0, Corner)}
MenuInputs == {Keys({"Down"}), Keys({"Enter"})}
SettingsInputs == {Keys({}), Keys({"Escape"})}
GameOverInputs == {Keys({}), Keys({"R"}), Keys({"Escape"})}
UpgradeInputs == {Keys({}), Keys({"One"}), Keys({"Two"}), Keys({"Five"}), Keys({"One", "Two"})}
PausedInputs == {Keys({}), Keys({"P"}), Keys({"Escape"})}

Next ==
    \/ \E in \in MenuInputs : MenuFrame(in)
    \/ \E in \in SettingsInputs : SettingsFrame(in)
    \/ \E in \in GameOverInputs : GameOverFrame(in)
    \/ \E in \in UpgradeInputs : UpgradeFrame(in)
    \/ \E in \in PausedInputs : PausedFrame(in)
    \/ \E in \in PlayInputs : PlayingFrame(in)

Spec == Init /\ [][Next]_vars

---------------------------------------------------------------------------
\* The methods of Game called directly, one call at a time, on games in progress.

\* The upgrade screen of level 4, just opened by the 60th kill.
UpgradeSolo ==
    [MidGame(4, 60, 60, 1200, 130, 12010, 80, BaseStats,
             [i \in EnemySlots |-> ZeroEnemy], <<>>, FALSE)
     EXCEPT !.state = StateUpgrade]

\* The same in co-op; pickups have brought player 1 to the fastest fire rate but
\* one, and player 2 to a higher speed.
UpgradeCoop ==
    [UpgradeSolo EXCEPT
        !.coopMode = TRUE,
        !.players = [i \in 0..1 |->
            [createPlayer(i, IF i = 0 THEN Vec(-30, 0) ELSE Vec(30, 0)) EXCEPT
                !.health = 80 - 20 * i,
                !.stats.fireRate = IF i = 0 THEN 7 ELSE 15,
                !.stats.speed = IF i = 0 THEN 120 ELSE 140,
                !.lastShot = 11900]]]

\* Level 37 in the arena with every slot of every pool in use; the bosses up
\* to that of level 35 are dead.
FullPools ==
    [ArenaStage EXCEPT
        !.level = 37, !.enemiesKilled = 590, !.nonBossKills = 583, !.score = 110840,
        !.bossLog = Append(@, 35),
        !.players[0].stats = [BaseStats EXCEPT !.damage = 7, !.maxHealth = 220],
        !.enemies = [i \in EnemySlots |->
            Enemy(Vec(210, 40 * i), Vec(-245, 0), 13, 13, 14, FALSE)],
        !.bullets = [i \in BulletSlots |->
            [position |-> Vec(0, (2 * (i % 2) - 1) * (40 + 20 * (i \div 2))),
             velocity |-> Vec(0, (2 * (i % 2) - 1) * 400),
             active |-> TRUE, damage |-> 7, playerId |-> 0]],
        !.particles = [i \in ParticleSlots |-> [lifetime |-> 50, active |-> TRUE]],
        !.powerUps = [i \in PowerUpSlots |->
            [position |-> Vec(100, 30 * i), active |-> TRUE, pType |-> i % 3]]]

OpStarts == {UpgradeSolo, UpgradeCoop, FullPools, ArenaStage, CoopPickup, BossOfLevel5}

OpInit == \E g \in OpStarts : Start(g)

\* One direct call that leaves the Game value r; `ticks` counts the calls.
Call(r) ==
    /\ ticks < MaxCalls
    /\ Becomes(r)
    /\ UNCHANGED <<sinceUse, resetSince, atPause>>
    /\ ticks' = ticks + 1

CallApplyUpgrade(choice) == ~exited /\ Call(ApplyUpgrade(Game, choice))
CallShootBullet(pIdx) == pIdx \in DOMAIN players /\ Call(ShootBullet(Game, pIdx, NoDrop))
CallUseSkill(pIdx, skillIndex) ==
    pIdx \in DOMAIN players /\ Call(UseSkill(Game, pIdx, skillIndex, NoDrop))
CallCreateExplosion(count) == ~exited /\ Call(CreateExplosion(Game, count, NoDrop))
CallSpawnPowerUp(pos) == ~exited /\ Call(SpawnPowerUp(Game, pos, Drop))
CallSpawnEnemy(rnd) == players # <<>> /\ Call(SpawnEnemy(Game, rnd))
CallSpawnBoss == ~exited /\ Call(SpawnBoss(Game, NoDrop))

OpNext ==
    \/ \E choice \in -1..5 : CallApplyUpgrade(choice)
    \/ \E pIdx \in 0..1 : CallShootBullet(pIdx)
    \/ \E pIdx \in 0..1 : \E skillIndex \in SkillSlots : CallUseSkill(pIdx, skillIndex)
    \/ \E count \in {5, 50} : CallCreateExplosion(count)
    \/ CallSpawnPowerUp(Vec(50, 50))
    \/ \E rnd \in {NoDrop, Corner} : CallSpawnEnemy(rnd)
    \/ CallSpawnBoss

OpSpec == OpInit /\ [][OpNext]_vars

---------------------------------------------------------------------------
\* The main loop (lines 2047-2050) over a game in progress: Update is called
\* once per frame for as long as the window is open.  Runs of MaxFlight ticks
\* of 0.1 s; the fire button and the radial skill are used in the first
\* FlightShots ticks only, player 2 of a co-op game shoots whenever it can.
\* The runs start from games at every stage of progress: level 1 on hard
\* difficulty, levels 3 and 5, and level 32 with all ten upgrades taken.
FlightStarts == {ArenaStage, CoopPickup, BossOfLevel5, LastKillOfLevel3,
                 HardLastKillOfLevel1, SpeedPickup}

FlightInit == \E g \in FlightStarts : Start(g)

FlightInputs == {Keys({}), Keys({"E"}), In(10, {}, {"Space"}, 0, NoDrop)}

FlightTick(in) ==
    /\ state = StatePlaying
    /\ ticks < MaxFlight
    /\ ticks >= FlightShots => in = Keys({})
    /\ Frame(in)

FlightNext == \E in \in FlightInputs : FlightTick(in)

\* What every step of FlightNext is, seen on the tick counter alone: the loop
\* has called Update on a game that is being played.
FlightClock == state = StatePlaying /\ ticks < MaxFlight /\ ticks' = ticks + 1

\* The loop does not stop while the window is open: as long as a tick can be
\* made, one is made.
FlightSpec == FlightInit /\ [][FlightNext]_vars /\ WF_ticks(FlightClock)

---------------------------------------------------------------------------
\* The KillEnemy calls of the last Update, in call order.
Kills == {ev.kills[k] : k \in 1..Len(ev.kills)}

\* The UseSkill calls of the last Update or direct call.
SkillCalls == {ev.skillCalls[k] : k \in 1..Len(ev.skillCalls)}

\* C1: every KillEnemy call of a tick is made on an enemy that was still active
\* when it was called, so that one enemy is counted and scored once however many
\* bullets lie inside its radius.
C1_KillOncePerEnemy == \A k \in Kills : k.wasActive

\* Two bullets of one tick lie inside the radius of one enemy: the second hit
\* finds the enemy already dead and counts and scores it again.
C1_Witness ==
    \E k \in Kills :
        ~k.wasActive /\ k.killsAfter = enemiesKilled /\ k.scoreAfter > k.scoreBefore

\* C2: a tick in which a contact brought a player's health to zero or below ends
\* in GameOver.
C2_LethalEndsInGameOver == ev.lethal => state = StateGameOver

\* A player died in this tick and the tick ends on the upgrade screen.
C2_Witness == ev.lethal /\ ev.pre = StatePlaying /\ state = StateUpgrade

\* C3: every player's health lies in 0..maxHealth after every Update.
C3_HealthInRange ==
    \A p \in DOMAIN players :
        0 <= players[p].health /\ players[p].health <= players[p].stats.maxHealth

\* Two enemies touched a player with 20 health in one tick.
C3_Witness ==
    ev.lethal /\ \E p \in DOMAIN players : players[p].health = -20

\* C4 as stated: a non-boss kill never raises the level to a multiple of the
\* stage interval.
C4_NeverReachesMultipleOfTen ==
    \A k \in Kills :
        ~k.isBoss /\ k.levelAfter > k.levelBefore => k.levelAfter % stageInterval # 0

\* C4: a non-boss kill made while the level is a multiple of 10 leaves the level
\* as it is.
C4_NoLevelUpAtMultipleOfTen ==
    \A k \in Kills : ~k.isBoss /\ k.levelBefore % 10 = 0 => k.levelAfter = k.levelBefore

\* A non-boss kill at level 10 brings the kill counter to a multiple of 20.
C4_Witness ==
    \E k \in Kills :
        /\ k.wasActive /\ ~k.isBoss
        /\ k.levelBefore = 10 /\ k.killsAfter % 20 = 0 /\ k.levelAfter = 10

\* C5: at a level where the increment is allowed, a non-boss kill raises the level
\* exactly when it makes the number of non-boss kills of this game a multiple
\* of 20.
C5_EveryTwentiethNonBossKill ==
    \A k \in Kills :
        k.wasActive /\ ~k.isBoss /\ k.levelBefore % 10 # 0
            => (k.levelAfter = k.levelBefore + 1 <=> k.nonBossKills % 20 = 0)

\* After a boss kill, the level rises on a non-boss kill that makes the total a
\* multiple of 20 and the number of non-boss kills one less than that.
C5_Witness ==
    \E k \in Kills :
        /\ k.wasActive /\ ~k.isBoss /\ k.levelBefore % 10 # 0
        /\ k.killsAfter % 20 = 0 /\ k.nonBossKills % 20 = 19
        /\ k.levelAfter = k.levelBefore + 1

\* The transitions of the state machine.
Legal ==
    {<<StateMenu, StatePlaying>>, <<StateMenu, StateSettings>>,
     <<StateSettings, StateMenu>>,
     <<StatePlaying, StatePaused>>, <<StatePlaying, StateUpgrade>>,
     <<StatePlaying, StateGameOver>>,
     <<StatePaused, StatePlaying>>, <<StatePaused, StateMenu>>,
     <<StateUpgrade, StatePlaying>>,
     <<StateGameOver, StatePlaying>>, <<StateGameOver, StateMenu>>}

\* C6: every Update call leaves the state unchanged or takes a legal transition.
C6_LegalTransitions == [][state' = state \/ <<state, state'>> \in Legal]_vars

\* An Update call has just opened the upgrade screen from play.
C6_Witness == ev.pre = StatePlaying /\ state = StateUpgrade

\* C7: in GameOver the high score is at least the score.
C7_HighScoreCoversScore == state = StateGameOver => highScore >= score

\* The tick of a lethal contact ends in GameOver with a score that a later kill
\* of the same tick raised above the recorded high score.
C7_Witness ==
    ev.lethal /\ state = StateGameOver /\ Kills # {} /\ highScore < score

\* C8: the bosses of one game were created at distinct levels, each a multiple
\* of 5, and at most one active enemy is a boss.
C8_BossGating ==
    /\ \A i, j \in 1..Len(bossLog) : i # j => bossLog[i] # bossLog[j]
    /\ \A i \in 1..Len(bossLog) : bossLog[i] % 5 = 0
    /\ Cardinality({i \in EnemySlots : enemies[i].active /\ enemies[i].isBoss}) <= 1

\* The boss of level 10 has been created in this run, after the boss of level 5.
C8_Witness ==
    /\ bossLog = <<5, 10>> /\ enemiesKilled = 160
    /\ \E i \in EnemySlots : enemies[i].active /\ enemies[i].isBoss

\* C9: every skill has 0 <= cooldown <= maxCooldown and is ready exactly when its
\* cooldown is 0.
C9_CooldownRange ==
    \A p \in DOMAIN players : \A s \in SkillSlots :
        /\ 0 <= players[p].skills[s].cooldown
        /\ players[p].skills[s].cooldown <= players[p].skills[s].maxCooldown
        /\ players[p].skills[s].ready <=> players[p].skills[s].cooldown = 0

\* A skill used in an earlier tick is part of the way through its cooldown.
C9_Witness ==
    \E p \in DOMAIN players : \E s \in SkillSlots :
        /\ sinceUse[p][s] > 0 /\ ~players[p].skills[s].ready
        /\ players[p].skills[s].cooldown < players[p].skills[s].maxCooldown

\* The round trip of skill s of player p: used in this tick it is on full
\* cooldown; it is ready, with cooldown 0, exactly when the time simulated since
\* the activation has reached maxCooldown, and what is left before that is
\* maxCooldown less that time.
RoundTrip(p, s) ==
    /\ <<p, s>> \in ev.skillUsed =>
           /\ ~players[p].skills[s].ready
           /\ players[p].skills[s].cooldown = players[p].skills[s].maxCooldown
    /\ players[p].skills[s].ready <=> sinceUse[p][s] >= players[p].skills[s].maxCooldown
    /\ players[p].skills[s].ready => players[p].skills[s].cooldown = 0
    /\ ~players[p].skills[s].ready =>
           players[p].skills[s].cooldown = players[p].skills[s].maxCooldown - sinceUse[p][s]

\* C10 as stated: the round trip of every skill that has been activated.
C10_RoundTripAlways ==
    \A p \in DOMAIN players : \A s \in SkillSlots :
        sinceUse[p][s] >= 0 => RoundTrip(p, s)

\* C10: the round trip of every skill that has been activated, for as long as
\* no ResetGame has run since the activation.
C10_RoundTripUntilReset ==
    \A p \in DOMAIN players : \A s \in SkillSlots :
        sinceUse[p][s] >= 0 /\ ~resetSince[p][s] => RoundTrip(p, s)

\* A skill is ready again after its whole cooldown has been simulated.
C10_Witness ==
    \E p \in DOMAIN players : \E s \in SkillSlots :
        /\ sinceUse[p][s] = players[p].skills[s].maxCooldown /\ ~resetSince[p][s]
        /\ players[p].skills[s].ready /\ players[p].skills[s].cooldown = 0

C12_EnemyKill ==
    \A k \in Kills :
        ~k.isBoss =>
            /\ k.scoreAfter = k.scoreBefore + 10 * k.levelBefore
            /\ k.killsAfter = k.killsBefore + 1
            /\ ~k.slotActiveAfter
            /\ k.othersSame

\* A kill that raises the level was paid at the level before it, while another
\* enemy is in play.
C12_Witness ==
    /\ \E k \in Kills :
           /\ ~k.isBoss /\ k.wasActive /\ k.levelAfter = k.levelBefore + 1
           /\ k.scoreAfter = k.scoreBefore + 10 * k.levelBefore
    /\ \E i \in EnemySlots : enemies[i].active

\* The stage archetype has period 40 in the level.
StagePeriod40 == \A l \in 1..80 : StageOf(l + 40) = StageOf(l)

C14_SingleCandidate ==
    Len(ev.candidates) > 0 /\ ev.candidates[1].blocked => Len(ev.candidates) = 1

\* C14: a spawn attempt draws a candidate for one free slot after the other, in
\* slot order, and goes on to the next free slot only when the candidate
\* overlaps an obstacle: every candidate but the last was blocked.
C14_NextSlotAfterBlocked ==
    /\ Len(ev.candidates) <= maxEnemies
    /\ \A k \in 1..(Len(ev.candidates) - 1) :
           ev.candidates[k].blocked /\ ev.candidates[k].slot < ev.candidates[k + 1].slot

\* In the arena the candidate of slot 1 was blocked and the enemy came in slot 2.
C14_Witness ==
    /\ Len(ev.candidates) = 2
    /\ ev.candidates[1].blocked /\ ~ev.candidates[2].blocked
    /\ enemies[ev.candidates[2].slot].active
    /\ currentStage = StageArena

\* A bullet of radius 0.3 overlaps an obstacle somewhere on the way from a to b.
Crosses(a, b) ==
    \E k \in 0..16 :
        CheckObstacleCollision(obstacles,
            Vec(a.x + TruncDiv((b.x - a.x) * k, 16), a.z + TruncDiv((b.z - a.z) * k, 16)), 6)

\* The ApplyUpgrade calls of the last Update or direct call.
Upgrades == {ev.upgrades[k] : k \in 1..Len(ev.upgrades)}

\* C15: an ApplyUpgrade call with a choice outside 0..4 changes no player and
\* leaves the state and upgradeChoice as they were.
C15_InvalidChoiceIsNoOp ==
    \A u \in Upgrades :
        u.choice \notin 0..4 =>
            /\ u.playersAfter = u.playersBefore
            /\ u.stateAfter = u.stateBefore
            /\ u.upgradeChoiceAfter = u.upgradeChoiceBefore

\* ApplyUpgrade was called on the upgrade screen with a choice outside 0..4: no
\* player has changed and the screen is closed.
C15_Witness ==
    /\ \E u \in Upgrades :
           /\ u.choice \notin 0..4 /\ u.stateBefore = StateUpgrade
           /\ u.playersAfter = u.playersBefore
    /\ state = StatePlaying /\ upgradeChoice = -1

\* C16: an ApplyUpgrade call with a choice in 0..4 makes the same change to the
\* stats of every player, sets the state to Playing and upgradeChoice to -1;
\* choice 1 adds 1 to every player's damage and changes nothing else of a player.
C16_UpgradeEveryPlayer ==
    \A u \in Upgrades :
        u.choice \in 0..4 =>
            /\ u.stateAfter = StatePlaying /\ u.upgradeChoiceAfter = -1
            /\ \A i \in DOMAIN u.playersBefore :
                   u.playersAfter[i].stats =
                       (CASE u.choice = 0 ->
                               [u.playersBefore[i].stats EXCEPT !.maxHealth = @ + 20]
                          [] u.choice = 1 ->
                               [u.playersBefore[i].stats EXCEPT !.damage = @ + 1]
                          [] u.choice = 2 ->
                               [u.playersBefore[i].stats EXCEPT !.speed = @ + 20]
                          [] u.choice = 3 ->
                               [u.playersBefore[i].stats EXCEPT !.fireRate = Max(@ - 2, 5)]
                          [] u.choice = 4 ->
                               [u.playersBefore[i].stats EXCEPT !.critChance = Min(@ + 5, 50)])
            /\ u.choice = 1 =>
                   \A i \in DOMAIN u.playersBefore :
                       u.playersAfter[i] =
                           [u.playersBefore[i] EXCEPT !.stats.damage = @ + 1]

\* In co-op, choice 1 on the upgrade screen has raised the damage of both players.
C16_Witness ==
    /\ \E u \in Upgrades : u.choice = 1 /\ u.stateBefore = StateUpgrade
    /\ DOMAIN players = 0..1 /\ players[0].stats.damage = 2 /\ players[1].stats.damage = 2
    /\ state = StatePlaying /\ upgradeChoice = -1

\* C17: a spawn operation called with every slot of its pool active leaves the
\* pool as it was (SpawnBoss also bossActive and bossSpawned), and no pool has
\* more active slots than its capacity.
C17_SoftCap ==
    /\ \A f \in ev.full : f.same /\ (f.op = "SpawnBoss" => f.bossFlagsSame)
    /\ DOMAIN enemies = EnemySlots /\ DOMAIN bullets = BulletSlots
    /\ DOMAIN particles = ParticleSlots /\ DOMAIN powerUps = PowerUpSlots
    /\ DOMAIN obstacles = ObstacleSlots
    /\ Cardinality({i \in DOMAIN enemies : enemies[i].active}) <= maxEnemies
    /\ Cardinality({i \in DOMAIN bullets : bullets[i].active}) <= maxBullets
    /\ Cardinality({i \in DOMAIN particles : particles[i].active}) <= maxParticles
    /\ Cardinality({i \in DOMAIN powerUps : powerUps[i].active}) <= maxPowerUps
    /\ Cardinality({i \in DOMAIN obstacles : obstacles[i].active}) <= maxObstacles

\* SpawnBoss was called with every enemy slot in use and no boss about.
C17_Witness ==
    /\ \E f \in ev.full : f.op = "SpawnBoss" /\ f.same
    /\ \A i \in EnemySlots : enemies[i].active /\ ~enemies[i].isBoss
    /\ ~bossActive /\ ~bossSpawned

\* C18: no bullet hits an enemy in a tick in which its path crossed an obstacle
\* (the obstacles being those the tick began with).
C18_NoHitThroughObstacle ==
    ev.stageRuns = 0 =>
        \A h \in ev.hits : \A m \in ev.moved :
            m.bullet = h.bullet => ~Crosses(m.from, m.to)

\* A bullet has passed the east wall of the arena in one step and hit the enemy
\* outside it.
C18_Witness ==
    /\ currentStage = StageArena /\ ev.stageRuns = 0
    /\ \E h \in ev.hits : \E m \in ev.moved :
           /\ m.bullet = h.bullet /\ Crosses(m.from, m.to)
           /\ enemies[h.enemy].health < enemies[h.enemy].maxHealth
           /\ enemies[h.enemy].position.x > 190

\* C19: every pickup taken in a tick was active (or dropped in that tick), is
\* inactive afterwards and is taken once; it goes to the lowest-numbered player
\* within 2 units, and no other player changes.
C19_PickupOnce ==
    [][/\ \A k \in 1..Len(ev'.pickups) :
            /\ ev'.pickups[k].taker \in ev'.pickups[k].near
            /\ \A q \in ev'.pickups[k].near : ev'.pickups[k].taker <= q
            /\ \A q \in DOMAIN ev'.pickups[k].playersBefore \ {ev'.pickups[k].taker} :
                   ev'.pickups[k].playersAfter[q] = ev'.pickups[k].playersBefore[q]
            /\ ev'.pickups[k].playersAfter[ev'.pickups[k].taker]
                   # ev'.pickups[k].playersBefore[ev'.pickups[k].taker]
            /\ powerUps[ev'.pickups[k].index].active \/ ev'.kills # <<>>
            /\ ~powerUps'[ev'.pickups[k].index].active
       /\ \A j, k \in 1..Len(ev'.pickups) :
            j # k => ev'.pickups[j].index # ev'.pickups[k].index]_vars

\* Two pickups were taken in one tick: the one between the players by player 1,
\* the one near player 2 alone by player 2.
C19_Witness ==
    /\ Len(ev.pickups) = 2
    /\ ev.pickups[1].near = {0, 1} /\ ev.pickups[1].taker = 0
    /\ ev.pickups[2].near = {1} /\ ev.pickups[2].taker = 1
    /\ players[0].health = 80 /\ players[1].health = 90

\* C20: an Update call that starts outside Playing and runs no reset leaves the
\* clock, the spawn timer, the score, the level, the kill counter, the skills
\* and every pool as they are; the players change only by a chosen upgrade.
C20_NoTickingOutsidePlaying ==
    [][state # StatePlaying /\ ev'.resets = 0 =>
          /\ gameTime' = gameTime /\ spawnTimer' = spawnTimer
          /\ score' = score /\ level' = level /\ enemiesKilled' = enemiesKilled
          /\ enemies' = enemies /\ bullets' = bullets /\ particles' = particles
          /\ powerUps' = powerUps /\ obstacles' = obstacles
          /\ DOMAIN players' = DOMAIN players
          /\ \A p \in DOMAIN players : players'[p].skills = players[p].skills
          /\ ev'.upgrades = <<>> => players' = players]_vars

\* A frame has passed on the pause screen of a game with a skill on cooldown.
C20_Witness ==
    /\ ev.pre = StatePaused /\ state = StatePaused /\ gameTime > 0
    /\ \E p \in DOMAIN players : \E s \in SkillSlots : ~players[p].skills[s].ready

\* C21: a tick ends on the upgrade screen, not having begun there, only if it
\* began in Playing and a kill of the tick raised the level to a value above 1
\* that leaves remainder 1 on division by 3.
C21_UpgradeOnlyAfterLevelUp ==
    state = StateUpgrade /\ ev.pre # StateUpgrade =>
        /\ ev.pre = StatePlaying
        /\ \E k \in Kills :
               /\ k.levelAfter = k.levelBefore + 1
               /\ k.levelAfter > 1 /\ k.levelAfter % 3 = 1

\* The 60th kill has raised the level to 4 and opened the upgrade screen.
C21_Witness ==
    /\ state = StateUpgrade /\ ev.pre = StatePlaying /\ level = 4
    /\ \E k \in Kills : k.wasActive /\ k.levelBefore = 3 /\ k.levelAfter = 4

\* C22: a tick ends in GameOver, not having begun there, only if it began in
\* Playing and a contact took a player's health to zero or below; a frame that
\* begins in GameOver ends in GameOver, in Playing after a ResetGame, or in Menu.
C22_GameOverOnlyFromLethal ==
    /\ state = StateGameOver /\ ev.pre # StateGameOver =>
           ev.pre = StatePlaying /\ ev.simulated /\ ev.lethal
    /\ ev.pre = StateGameOver /\ state # StateGameOver =>
           \/ state = StatePlaying /\ ev.resets = 1
           \/ state = StateMenu

\* A game that ended in this run has been restarted with R.
C22_Witness ==
    /\ ev.pre = StateGameOver /\ state = StatePlaying /\ ev.resets = 1
    /\ ticks > 0 /\ highScore > 0 /\ score = 0

\* C23: no player has more health than stats.maxHealth.
C23_HealthAtMostMax ==
    \A p \in DOMAIN players : players[p].health <= players[p].stats.maxHealth

\* The Energy Shield was used at full health, which stays at maxHealth.
C23_Witness ==
    /\ \E c \in SkillCalls : c.ready /\ c.skill = 2 /\ c.player = 0
    /\ ev.pickups = <<>> /\ ~ev.lethal
    /\ players[0].health = players[0].stats.maxHealth
    /\ players[0].health = 100

\* C24: a UseSkill call on a skill that is not ready leaves the whole Game as
\* it was, the skill's cooldown included.
C24_NotReadyIsNoOp ==
    \A c \in SkillCalls : ~c.ready => c.same /\ ~c.readyAfter

\* The key of a skill on cooldown was pressed again one tick after its use.
C24_Witness ==
    \E c \in SkillCalls :
        /\ ~c.ready /\ c.same
        /\ players[c.player].skills[c.skill].cooldown
               < players[c.player].skills[c.skill].maxCooldown

\* The Radial Shots of the last Update or direct call.
Radials == {ev.radial[k] : k \in 1..Len(ev.radial)}

\* The slots a Radial Shot has claimed.
Claimed(r) == {i \in r.free : r.bulletsAfter[i].active}

\* C25: a Radial Shot with f free bullet slots claims min(12, f) of them, the
\* lowest-numbered ones, gives each bullet the caster's stats.damage and id and
\* changes no other slot; the skill goes on cooldown whatever f is.
C25_RadialShot ==
    /\ \A r \in Radials :
           /\ Cardinality(Claimed(r)) = Min(12, Cardinality(r.free))
           /\ \A i \in Claimed(r) : \A j \in r.free \ Claimed(r) : i < j
           /\ \A i \in Claimed(r) :
                  /\ r.bulletsAfter[i].damage = r.damage
                  /\ r.bulletsAfter[i].playerId = r.id
           /\ \A i \in BulletSlots \ Claimed(r) : r.bulletsAfter[i] = r.bulletsBefore[i]
    /\ \A c \in SkillCalls :
           c.ready /\ c.skill = 1 => ~c.readyAfter /\ c.cooldownAfter = MaxCooldownOf(1)
    /\ \A c \in SkillCalls : c.ready /\ c.skill = 1 => Radials # {}

\* A Radial Shot into an empty pool has claimed twelve slots and left the last
\* one free.
C25_Witness ==
    /\ \E r \in Radials : r.free = BulletSlots /\ Cardinality(Claimed(r)) = 12
    /\ \A i \in 0..11 : bullets[i].active /\ bullets[i].damage = players[0].stats.damage
    /\ \A i \in BulletSlots \ 0..11 : ~bullets[i].active
    /\ ~players[0].skills[1].ready

\* The Explosion skills of the last Update or direct call.
Blasts == {ev.blasts[k] : k \in 1..Len(ev.blasts)}

\* C26: the Explosion skill takes 3 * damage (10 * damage from a boss) once from
\* every enemy that was active and closer than 10 units when it was used, and
\* nothing from any other enemy; it calls KillEnemy once for every enemy it has
\* brought to zero health or below, and for no other.
C26_ExplosionSkill ==
    \A b \in Blasts : \A i \in EnemySlots :
        /\ b.healthAfter[i] =
               b.healthBefore[i]
                   - (IF i \notin b.inRange THEN 0
                      ELSE IF b.isBoss[i] THEN 10 * b.damage ELSE 3 * b.damage)
        /\ b.deaths[i] = (IF i \in b.inRange /\ b.healthAfter[i] <= 0 THEN 1 ELSE 0)

\* The first death of a scan has raised the level to 16; the boss and an enemy
\* later in the scan have been hit all the same, and the enemy behind the wall
\* has not.
C26_Witness ==
    \E b \in Blasts :
        /\ b.inRange = {0, 1, 3} /\ b.deaths[0] = 1
        /\ b.levelBefore = 15 /\ b.levelAfter = 16
        /\ b.healthAfter[1] = 190 /\ b.healthAfter[3] = 2 /\ b.healthAfter[2] = 5
        /\ state = StateUpgrade /\ enemies[3].active

\* C27: no step lowers highScore, and a step in which ResetGame runs (restart
\* with R, or StartGame from the menu) leaves it as it is while the score
\* becomes 0 and the level 1.
C27_HighScoreSurvives ==
    [][/\ highScore' >= highScore
       /\ ev'.resets > 0 => highScore' = highScore /\ score' = 0 /\ level' = 1]_vars

\* A game of this run has ended below the high score of 2000 and a new game
\* has been started from the menu.
C27_Witness ==
    /\ ev.pre = StateMenu /\ state = StatePlaying /\ ev.resets = 1
    /\ ticks > 0 /\ highScore = 2000 /\ score = 0 /\ level = 1

\* C28: after an Update in which ResetGame ran, the counters, timers and boss
\* flags have their starting values, the stage is the basic one with no active
\* obstacle, every enemy, bullet, particle and pickup slot is inactive, every
\* skill is ready and every player has the starting stats with health =
\* maxHealth; the difficulty sets spawnInterval and that health (easy 2.0 and
\* 150, normal 1.5 and 100, hard 1.0 and 75) and nothing else.
C28_ResetWorld ==
    ev.resets > 0 =>
        /\ score = 0 /\ level = 1 /\ enemiesKilled = 0 /\ gameTime = 0 /\ spawnTimer = 0
        /\ ~bossActive /\ ~bossSpawned /\ currentStage = StageBasic
        /\ \A i \in ObstacleSlots : ~obstacles[i].active
        /\ \A i \in EnemySlots : ~enemies[i].active
        /\ \A i \in BulletSlots : ~bullets[i].active
        /\ \A i \in ParticleSlots : ~particles[i].active
        /\ \A i \in PowerUpSlots : ~powerUps[i].active
        /\ players # <<>>
        /\ spawnInterval = (CASE difficulty = 0 -> 200 [] difficulty = 1 -> 150
                               [] difficulty = 2 -> 100)
        /\ \A p \in DOMAIN players :
               /\ \A s \in SkillSlots :
                      players[p].skills[s].ready /\ players[p].skills[s].cooldown = 0
               /\ players[p].health = players[p].stats.maxHealth
               /\ players[p].health > 0
               /\ players[p].health = (CASE difficulty = 0 -> 150 [] difficulty = 1 -> 100
                                          [] difficulty = 2 -> 75)
               /\ players[p].stats =
                      [maxHealth |-> players[p].health, damage |-> 1, speed |-> 120,
                       fireRate |-> 15, critChance |-> 5]

\* A game lost on hard difficulty has been restarted with R: 75 health, a spawn
\* every second, and score and level of that game are gone.
C28_Witness ==
    /\ ev.pre = StateGameOver /\ ev.resets = 1 /\ state = StatePlaying
    /\ difficulty = 2 /\ players[0].health = 75 /\ spawnInterval = 100
    /\ highScore = 300 /\ score = 0 /\ level = 1
    /\ players[0].skills[0].ready

\* The active enemies that are not a boss.
ActiveCount == Cardinality({i \in EnemySlots : enemies[i].active /\ ~enemies[i].isBoss})

\* C29: at most 10 + 2 * level enemies other than the boss are active, and a
\* tick spawns at most one enemy.
C29_SpawnCap ==
    /\ ActiveCount <= 10 + 2 * level
    /\ Cardinality({k \in 1..Len(ev.candidates) : ~ev.candidates[k].blocked}) <= 1

\* The spawn timer has fired with twelve enemies alive at level 1 and a slot
\* free: no spawn was attempted.
C29_Witness ==
    /\ ev.simulated /\ level = 1 /\ ~bossActive /\ spawnTimer = 0 /\ gameTime > 0
    /\ ActiveCount = 12 /\ ev.candidates = <<>>
    /\ \E i \in EnemySlots : ~enemies[i].active

\* C30: bossActive is set exactly when an active enemy is a boss, and only
\* while bossSpawned is set.
C30_BossFlagsAgree ==
    /\ bossActive <=> \E i \in EnemySlots : enemies[i].active /\ enemies[i].isBoss
    /\ bossActive => bossSpawned

\* The 260th kill has raised the level to 16 while the boss of level 15 lives on.
C30_Witness ==
    /\ bossActive /\ bossSpawned /\ level = 16
    /\ enemies[1].active /\ enemies[1].isBoss
    /\ \E k \in Kills : ~k.isBoss /\ k.wasActive /\ k.levelBefore = 15 /\ k.levelAfter = 16

\* C31: in every tick the spawn step starts from the timer the tick began
\* with and leaves the timer the tick ends with; under an active boss it
\* changes neither the timer nor the enemy pool, and without one it advances
\* the timer by dt from that value (back to 0 once it exceeds spawnInterval).
C31_SpawnFrozenUnderBoss ==
    [][ev'.simulated =>
        /\ Len(ev'.spawnSteps) = 1
        /\ \A n \in 1..Len(ev'.spawnSteps) :
              LET s == ev'.spawnSteps[n]
              IN /\ s.timerBefore = spawnTimer
                 /\ s.timerAfter = spawnTimer'
                 /\ s.bossActive => s.timerAfter = s.timerBefore /\ s.enemiesSame
                 /\ ~s.bossActive =>
                       s.timerAfter = IF s.timerBefore + s.dt > s.interval
                                      THEN 0 ELSE s.timerBefore + s.dt]_vars

\* The boss of level 5 stood through the first tick and fell in the second,
\* whose spawn step took the timer from the 0.4 s it was frozen at to 0.5 s.
C31_Witness ==
    /\ ticks = 2 /\ gameTime = 16020 /\ level = 6 /\ ~bossActive
    /\ \E k \in Kills : k.isBoss /\ k.wasActive
    /\ Len(ev.spawnSteps) = 1
    /\ ~ev.spawnSteps[1].bossActive
    /\ ev.spawnSteps[1].timerBefore = 40 /\ spawnTimer = 50

\* C32: spawnInterval never rises within a game and never drops below 0.5:
\* every kill leaves it at or below the value it had before, and at 0.5 or more.
C32_IntervalNeverRises ==
    \A k \in Kills : k.intervalAfter <= k.intervalBefore /\ k.intervalAfter >= 50

\* On hard difficulty the 20th kill has raised the level to 2 and spawnInterval
\* from 1.0 to 1.4.
C32_Witness ==
    /\ difficulty = 2 /\ level = 2 /\ spawnInterval = 140 /\ ev.resets = 0
    /\ \E k \in Kills : /\ ~k.isBoss /\ k.wasActive /\ k.killsAfter = 20
                        /\ k.levelBefore = 1 /\ k.levelAfter = 2
                        /\ k.intervalBefore = 100 /\ k.intervalAfter = 140

\* C33: a speed pickup never lowers the speed of the player who takes it.
C33_SpeedPickupNeverSlows ==
    \A n \in 1..Len(ev.pickups) :
        ev.pickups[n].pType = 1 =>
            \A p \in DOMAIN ev.pickups[n].playersAfter :
                ev.pickups[n].playersAfter[p].stats.speed
                    >= ev.pickups[n].playersBefore[p].stats.speed

\* After five speed upgrades the player ran at 22; the speed pickup it has just
\* taken has set the speed to 20.
C33_Witness ==
    /\ ev.simulated /\ Len(ev.pickups) = 1
    /\ ev.pickups[1].pType = 1 /\ ev.pickups[1].taker = 0
    /\ ev.pickups[1].playersBefore[0].stats.speed = 220
    /\ players[0].stats.speed = 200

\* C34: no player (radius 0.9) overlaps an active obstacle.
C34_NoPlayerInObstacle ==
    \A p \in DOMAIN players : ~CheckObstacleCollision(obstacles, players[p].position, 18)

\* The kill of the boss of level 10 has raised the level to 11 and built the
\* maze, whose middle wall (x in [-1, 1], z in [-7.5, 7.5]) stands on the
\* player at the origin.
C34_Witness ==
    /\ ev.simulated /\ ev.stageRuns = 1 /\ level = 11 /\ currentStage = StageMaze
    /\ \E k \in Kills : k.isBoss /\ k.wasActive /\ k.levelBefore = 10
    /\ players[0].position = ZeroVec
    /\ obstacles[2].active /\ obstacles[2].position = ZeroVec
    /\ CheckObstacleCollision(obstacles, players[0].position, 18)

\* C35: a frame of the Upgrade state applies at most one upgrade, and the
\* frame that returns to Playing has applied exactly one.
C35_OneUpgradePerEntry ==
    ev.pre = StateUpgrade =>
        /\ Len(ev.upgrades) <= 1
        /\ state = StatePlaying => Len(ev.upgrades) = 1

\* Keys 1 and 2 were reported pressed in one frame of the upgrade screen of
\* level 4: the frame has applied both the health and the damage upgrade.
C35_Witness ==
    /\ ev.pre = StateUpgrade /\ state = StatePlaying /\ level = 4
    /\ Len(ev.upgrades) = 2
    /\ ev.upgrades[1].choice = 0 /\ ev.upgrades[1].stateBefore = StateUpgrade
    /\ ev.upgrades[2].choice = 1 /\ ev.upgrades[2].stateBefore = StatePlaying
    /\ players[0].stats.maxHealth = 120 /\ players[0].stats.damage = 2

\* C36: from the Update call that pauses, through every paused frame, to the
\* call that resumes, gameTime, spawnTimer, score, level, the players with
\* their skills and every pool are as they were before the pausing call.
C36_PauseRoundTrip ==
    atPause # <<>> => atPause = <<Snapshot(Game)>>

\* A game with an enemy alive and the explosion skill cooling down has been
\* paused after a tick and, paused frames or none later, has just resumed.
C36_Witness ==
    /\ ev.pre = StatePaused /\ state = StatePlaying
    /\ atPause = <<Snapshot(Game)>>
    /\ ticks = 1 /\ gameTime > 0 /\ spawnTimer > 0
    /\ ~players[0].skills[0].ready /\ players[0].skills[0].cooldown > 0
    /\ \E i \in EnemySlots : enemies[i].active
    /\ \E i \in ParticleSlots : particles[i].active

\* C37: while Playing ticks keep occurring, every bullet that is active in
\* one of the first FlightShots ticks of a run is inactive at some later
\* tick; and at the end of every tick each active bullet lies within
\* |x| <= 40 and |z| <= 40.
C37_BulletsLeave ==
    /\ \A i \in BulletSlots :
          (bullets[i].active /\ ticks <= FlightShots /\ state = StatePlaying)
              ~> (~bullets[i].active \/ state # StatePlaying)
    /\ [](\A i \in BulletSlots :
            bullets[i].active =>
                Abs(bullets[i].position.x) <= 400 /\ Abs(bullets[i].position.z) <= 400)

\* Late in a run that shot in its first ticks, a bullet has just crossed the
\* edge of the field and has been deactivated; the game is still being played.
C37_Witness ==
    /\ state = StatePlaying /\ ev.simulated /\ ticks > FlightShots + 8
    /\ \E m \in ev.moved :
          /\ Abs(m.to.x) > 400 \/ Abs(m.to.z) > 400
          /\ Abs(m.from.x) <= 400 /\ Abs(m.from.z) <= 400
          /\ ~bullets[m.bullet].active

====
